---------------------------- MODULE Spec2Model ----------------------------
(***************************************************************************)
(* Model of the response-validation runtime emitted by apical-ts/craft     *)
(* (parseApiResponseUnknownData, the response handlers of                  *)
(* renderResponseHandler / renderDefaultResponseHandler), of the           *)
(* operation-binding utility configureOperations, and of the schema        *)
(* collision pre-pass renameConflictingSchemas.                            *)
(*                                                                         *)
(* Three specifications share the module:                                  *)
(*   Spec       - one HTTP response handled in forced and in manual mode,  *)
(*                and parse() called on the manual-mode object;            *)
(*   SpecBind   - configureOperations and calls of the bound operations;   *)
(*   SpecRename - renameConflictingSchemas, statement by statement;        *)
(*   SpecGenerate - generate(): the pre-pass, then the schema tasks run    *)
(*                through p-limit, then operations and package.json;       *)
(*   SpecGenerateLive - SpecGenerate with every started step finishing;    *)
(*   SpecAnalyze - analyzeResponseStructure and generateResponseUnion on   *)
(*                one operation;                                           *)
(*   SpecResolve - calls of the type-name resolvers on one import set.     *)
(***************************************************************************)
EXTENDS Integers, Sequences, FiniteSets, TLC

VARIABLES
    \* ---- Spec: response handling ----
    hasResponseMap,   \* whether the operation was generated with a response map name
    deserializers,    \* config.deserializers: [defined, map]
    info,             \* the ResponseInfo whose case handles the response
    response,         \* the transport response: [status, header]
    payload,          \* the raw body handed to the handler as `data`
    forced,           \* result of the handler under a truthy config.forceValidation
    forcedParse,      \* the local `parseResult` of that forced-mode run
    manual,           \* result of the handler under a falsy config.forceValidation
    outcomes,         \* what each parse() call on `manual` returned, in order
    constructedWith,  \* config.deserializers when `manual` was constructed
    \* ---- SpecBind: configureOperations ----
    operations,       \* the input map: key -> value (a function or not)
    client,           \* what configureOperations returned last, and for which config
    requests,         \* the calls made on bound functions, in order
    invocations,      \* the calls the underlying operations received, in order
    \* ---- SpecRename: renameConflictingSchemas ----
    inputSchemas,     \* components.schemas as the document came in
    inputDoc,         \* the rest of the document as it came in: a tree of nodes
    openApiDoc,       \* the rest of the document now
    schemas,          \* components.schemas now: [present, entries], entries an
                      \* ordered list of [key, value]
    pc,               \* position inside renameConflictingSchemas
    scanIdx,          \* index of the key the collision loop looks at
    candidate,        \* the loop's current candidate name
    counter,          \* the loop's numeric suffix counter
    renameMap,        \* the Map originalName -> new name, as a function
    returned,         \* the function's return value (-1 before it returns)
    applications,     \* how many times renameConflictingSchemas was applied
    \* ---- SpecGenerate: generate() ----
    options,          \* GenerationOptions: [concurrency, generateServer]
    genPc,            \* the statement generate() is at, or how it settled
    limit,            \* the concurrency of the p-limit instance (0: none created)
    tasks,            \* the schema-generation tasks handed to limit(), in order
    operationsStarted,\* whether generateAllOperations has been called
    packageCreated,   \* whether createPackageJson has been called
    \* ---- SpecAnalyze: response analysis of one operation ----
    theOperation,     \* the OperationObject: [operationId, hasResponses, responses]
    analysis,         \* what analyzeResponseStructure returned, with its handlers
    union,            \* what generateResponseUnion returned
    strategyInput,    \* one response handed to buildResponseTypeInfo
    builtInfo,        \* the ResponseInfo buildResponseTypeInfo returned
    \* ---- SpecResolve: the type-name resolvers ----
    typeImports,      \* the import set handed to every resolver call
    resolutions,      \* the resolver calls made so far and their outcomes
    \* ---- SpecRequestMap: the server request body map of one operation ----
    theRequestBody,   \* operation.requestBody: [present, required, content]
    requestMap,       \* what generateServerRequestBodyMap returned
    \* ---- SpecVisit: the reference rewrite, one visit() call at a time ----
    visitDoc,         \* the document visit() walks
    visitStack,       \* the nodes visit() has yet to be called on, next first
    visitCount,       \* the visit() calls made so far
    visitRewrites     \* the $ref strings assigned so far, in order

runtimeVars == <<hasResponseMap, deserializers, info, response, payload,
                 forced, forcedParse, manual, outcomes, constructedWith>>
bindVars    == <<operations, client, requests, invocations>>
renameVars  == <<inputSchemas, inputDoc, openApiDoc, schemas, pc, scanIdx, candidate, counter,
                 renameMap, returned, applications>>
generateVars == <<options, genPc, limit, tasks, operationsStarted,
                  packageCreated>>
analyzeVars == <<theOperation, analysis, union, strategyInput, builtInfo>>
resolveVars == <<typeImports, resolutions, theRequestBody, requestMap>>
visitVars   == <<visitDoc, visitStack, visitCount, visitRewrites>>
vars        == <<runtimeVars, bindVars, renameVars, generateVars, analyzeVars,
                 resolveVars, visitVars>>

----------------------------------------------------------------------------
(* Bounds of the model *)

\* parse() calls made on one manual-mode response object
MaxParseCalls == 3

----------------------------------------------------------------------------
(* JavaScript values *)

\* A JavaScript value that is not an object of the model: a primitive, or an
\* opaque body, named by a string.
JS(x) == [js |-> x]

Undefined == JS("undefined")

\* The falsy values of JavaScript among the values the model uses.
Falsy == {JS("undefined"), JS("null"), JS("false"), JS("0"), JS("")}

Truthy(v) == v \notin Falsy

EmptyMap == [k \in {} |-> k]

Has(m, k) == k \in DOMAIN m

----------------------------------------------------------------------------
(* Strings that the code takes apart are sequences of characters *)

Uppers == <<"A","B","C","D","E","F","G","H","I","J","K","L","M",
            "N","O","P","Q","R","S","T","U","V","W","X","Y","Z">>
Lowers == <<"a","b","c","d","e","f","g","h","i","j","k","l","m",
            "n","o","p","q","r","s","t","u","v","w","x","y","z">>

ToLowerChar(c) ==
    IF \E i \in 1..26 : Uppers[i] = c
    THEN Lowers[CHOOSE i \in 1..26 : Uppers[i] = c]
    ELSE c

ToLowerCase(s) == [i \in 1..Len(s) |-> ToLowerChar(s[i])]

IsSpace(c) == c \in {" ", "\t"}

RECURSIVE TrimStart(_)
TrimStart(s) ==
    IF s # <<>> /\ IsSpace(Head(s)) THEN TrimStart(Tail(s)) ELSE s

RECURSIVE TrimEnd(_)
TrimEnd(s) ==
    IF s # <<>> /\ IsSpace(s[Len(s)])
    THEN TrimEnd(SubSeq(s, 1, Len(s) - 1))
    ELSE s

Trim(s) == TrimEnd(TrimStart(s))

\* s.split(sep)[0]: the part of s before the first sep
RECURSIVE SplitFirst(_, _)
SplitFirst(s, sep) ==
    IF s = <<>> \/ Head(s) = sep
    THEN <<>>
    ELSE <<Head(s)>> \o SplitFirst(Tail(s), sep)

TextXml  == <<"t","e","x","t","/","x","m","l">>
TextCsv  == <<"t","e","x","t","/","c","s","v">>
TextHtml == <<"t","e","x","t","/","h","t","m","l">>

\* A response header is [present, value]; present = FALSE is headers.get() = null.
NoHeader == [present |-> FALSE, value |-> <<>>]
Header(s) == [present |-> TRUE, value |-> s]

Headers ==
    { NoHeader,
      Header(<<>>),
      Header(TextXml),
      Header(<<"T","e","x","t","/","X","M","L",";"," ","q","=","1">>),
      Header(<<" ">> \o TextCsv \o <<" ",";","x">>),
      Header(TextHtml) }

\* getResponseContentType: raw ? raw.split(";")[0].trim().toLowerCase() : ""
GetResponseContentType(resp) ==
    IF resp.header.present /\ resp.header.value # <<>>
    THEN ToLowerCase(Trim(SplitFirst(resp.header.value, ";")))
    ELSE <<>>

----------------------------------------------------------------------------
(* Payloads, schemas and deserializers *)

\* Raw bodies handed to a handler as `data`.
Payloads == {JS("rawGood"), JS("rawBad"), JS("objGood")}

Values == Payloads \cup {JS("objBad"), Undefined}

\* What a throwing deserializer throws: an Error, or a falsy value
\* (`throw undefined`, `throw 0`).
ThrownValues == {JS("Error: boom"), JS("undefined"), JS("0")}

\* A Zod schema: the values it accepts and what safeParse returns as result.data
\* for each (Zod coerces, strips and defaults, so result.data need not be the input).
PetSchema ==
    [ name    |-> "Pet",
      accepts |-> {JS("objGood"), JS("rawGood")},
      out     |-> [v \in Values |-> IF v = JS("rawGood") THEN JS("objGood") ELSE v] ]

RowsSchema ==
    [ name    |-> "Rows",
      accepts |-> {JS("rawGood"), JS("rawBad")},
      out     |-> [v \in Values |-> v] ]

ProblemSchema ==
    [ name    |-> "Problem",
      accepts |-> {JS("objBad"), JS("rawBad")},
      out     |-> [v \in Values |-> v] ]

\* The uniform shape of an `error` field: a ZodError (about a value), a thrown
\* value, or the "No schema found for content-type: <ct>" message.
ZodError(v)        == [tag |-> "ZodError", value |-> v, contentType |-> <<>>]
ThrownError(x)     == [tag |-> "thrown", value |-> x, contentType |-> <<>>]
NoSchemaMessage(c) == [tag |-> "No schema found for content-type", value |-> JS(""),
                       contentType |-> c]

\* schema.safeParse(value): never throws, returns {success, data} or {success, error}
SafeParse(schema, v) ==
    IF v \in schema.accepts
    THEN [success |-> TRUE, data |-> schema.out[v]]
    ELSE [success |-> FALSE, error |-> ZodError(v)]

\* The response map of the modelled operation: status key -> content type -> schema.
\* Every entry is a Zod schema, so `typeof schema.safeParse` is "function" for each.
ResponseMap ==
    [ k \in {"200", "default"} |->
        IF k = "200"
        THEN (TextXml :> PetSchema) @@ (TextCsv :> RowsSchema)
        ELSE (TextXml :> ProblemSchema) ]

\* A deserializer (data, contentType?) => unknown: it returns map[data] or throws.
Returning(m) == [throws |-> FALSE, thrown |-> Undefined, map |-> m]
Throwing(x)  == [throws |-> TRUE, thrown |-> x, map |-> [v \in Values |-> v]]

\* An XML parser: text becomes an object; given anything but text (an already
\* parsed object, undefined) it yields a useless object.
XmlToObject ==
    Returning([v \in Values |->
        CASE v = JS("rawGood") -> JS("objGood")
          [] v = JS("rawBad")  -> JS("objBad")
          [] OTHER             -> JS("objBad")])

\* config.deserializers: omitted, or a map content type -> deserializer
NoDeserializers == [defined |-> FALSE, map |-> EmptyMap]
Deserializers(m) == [defined |-> TRUE, map |-> m]

DeserializerChoices ==
    { NoDeserializers,
      Deserializers(TextXml :> XmlToObject),
      Deserializers((TextXml :> Throwing(JS("Error: boom")))
                    @@ (TextCsv :> XmlToObject)) }
    \cup { Deserializers(TextXml :> Throwing(x)) : x \in ThrownValues \ {JS("Error: boom")} }
    \cup { Deserializers(TextHtml :> Throwing(x)) : x \in {JS("Error: boom"), Undefined} }

\* config.deserializers ?? {}
OrEmpty(d) == IF d.defined THEN d ELSE Deserializers(EmptyMap)

----------------------------------------------------------------------------
(* parseApiResponseUnknownData *)

\* The shapes a function call can end in.
Parsed(ct, v)  == [contentType |-> ct, parsed |-> v]
Failure(k, e)  == [kind |-> k, error |-> e]
Thrown(e)      == [thrown |-> e]

\* Lines 52-62: the deserializer step with its try/catch.
ApplyDeserializer(deser, contentType, data) ==
    IF deser.defined /\ Has(deser.map, contentType)
    THEN LET d == deser.map[contentType]
         IN  IF d.throws
             THEN [deserializedData |-> data, deserializationError |-> d.thrown]
             ELSE [deserializedData |-> d.map[data], deserializationError |-> Undefined]
    ELSE [deserializedData |-> data, deserializationError |-> Undefined]

\* Lines 64-81: schema lookup, the two deserializationError tests, validation.
Classify(schemaMap, contentType, step) ==
    IF ~Has(schemaMap, contentType)
    THEN IF Truthy(step.deserializationError)
         THEN Failure("deserialization-error", ThrownError(step.deserializationError))
         ELSE Failure("missing-schema", NoSchemaMessage(contentType))
    ELSE IF Truthy(step.deserializationError)
         THEN Failure("deserialization-error", ThrownError(step.deserializationError))
         ELSE LET result == SafeParse(schemaMap[contentType], step.deserializedData)
              IN  IF result.success
                  THEN Parsed(contentType, result.data)
                  ELSE Failure("parse-error", result.error)

ParseApiResponseUnknownData(resp, data, schemaMap, deser) ==
    LET contentType == GetResponseContentType(resp)
    IN  Classify(schemaMap, contentType, ApplyDeserializer(deser, contentType, data))

----------------------------------------------------------------------------
(* The response handlers emitted by renderResponseHandler(s) *)

\* ResponseInfo of the modelled operation. typeName and contentType are
\* string | null (JS("null") is null); hasSchema says whether the primary content
\* type carries a schema.
ResponseInfos ==
    { [statusCode |-> "200", contentType |-> JS("text/xml"), hasSchema |-> TRUE,
       typeName |-> JS("Pet")],
      [statusCode |-> "404", contentType |-> JS("text/csv"), hasSchema |-> FALSE,
       typeName |-> JS("null")],
      [statusCode |-> "204", contentType |-> JS("null"), hasSchema |-> FALSE,
       typeName |-> JS("null")],
      [statusCode |-> "default", contentType |-> JS("text/xml"), hasSchema |-> TRUE,
       typeName |-> JS("Problem")],
      [statusCode |-> "default", contentType |-> JS("null"), hasSchema |-> FALSE,
       typeName |-> JS("null")] }

\* The numeric literal a status key is emitted as.
StatusLiteral(statusCode) ==
    CASE statusCode = "200" -> 200
      [] statusCode = "204" -> 204
      [] statusCode = "404" -> 404

\* Statuses a server answers with that the default case handles.
UndeclaredStatuses == {500, 503}

\* renderResponseHandler: which of its three templates it emits, the key it
\* indexes the response map with, whether `status` is the literal or
\* response.status, and whether it emits `const data = undefined;`.
RenderResponseHandler(responseInfo, responseMapName) ==
    IF Truthy(responseInfo.typeName) \/ Truthy(responseInfo.contentType)
    THEN IF responseInfo.hasSchema /\ responseMapName
         THEN [template |-> "validated", statusKey |-> responseInfo.statusCode,
               runtimeStatus |-> responseInfo.statusCode = "default",
               dataUndefined |-> ~responseInfo.hasSchema]
         ELSE [template |-> "simple", statusKey |-> responseInfo.statusCode,
               runtimeStatus |-> responseInfo.statusCode = "default",
               dataUndefined |-> ~responseInfo.hasSchema]
    ELSE [template |-> "bare", statusKey |-> responseInfo.statusCode,
          runtimeStatus |-> responseInfo.statusCode = "default",
          dataUndefined |-> TRUE]

\* renderDefaultResponseHandler: the same three templates for the switch's
\* default case; status is always response.status and data is never shadowed.
RenderDefaultResponseHandler(responseInfo, responseMapName) ==
    IF Truthy(responseInfo.typeName) \/ Truthy(responseInfo.contentType)
    THEN IF responseInfo.hasSchema /\ responseMapName
         THEN [template |-> "validated", statusKey |-> "default",
               runtimeStatus |-> TRUE, dataUndefined |-> FALSE]
         ELSE [template |-> "simple", statusKey |-> "default",
               runtimeStatus |-> TRUE, dataUndefined |-> FALSE]
    ELSE [template |-> "bare", statusKey |-> "default",
          runtimeStatus |-> TRUE, dataUndefined |-> TRUE]

\* renderResponseHandlers: the default entry goes to the default handler.
RenderResponseHandlers(responseInfo, responseMapName) ==
    IF responseInfo.statusCode = "default"
    THEN RenderDefaultResponseHandler(responseInfo, responseMapName)
    ELSE RenderResponseHandler(responseInfo, responseMapName)

\* The `status` an emitted handler writes.
ReturnStatus(handler, resp) ==
    IF handler.runtimeStatus THEN resp.status ELSE StatusLiteral(handler.statusKey)

\* A forced branch that calls the three-argument overload: the configured
\* deserializers are not handed to the parse routine.
ForcedParseResultWithoutDeserializers(handler, config, resp, data) ==
    ParseApiResponseUnknownData(resp, data, ResponseMap[handler.statusKey],
                                NoDeserializers)

\* Forced branch, line 33: const parseResult = parseApiResponseUnknownData(
\*   minimalResponse, data, <Map>["<status>"], config.deserializers ?? {})
ForcedParseResult(handler, config, resp, data) ==
    ParseApiResponseUnknownData(resp, data, ResponseMap[handler.statusKey],
                                OrEmpty(config.deserializers))

\* A forced branch whose second test recognises only kind "parse-error".
ForcedBranchParseErrorOnly(parseResult, status, data, resp) ==
    IF "parsed" \in DOMAIN parseResult
    THEN [isValid |-> TRUE, status |-> status, data |-> data, response |-> resp,
          parsed |-> parseResult.parsed]
    ELSE IF "kind" \in DOMAIN parseResult /\ parseResult.kind = "parse-error"
         THEN [isValid |-> FALSE,
               result |-> [data |-> data, status |-> status, response |-> resp]]
              @@ parseResult
         ELSE Thrown(JS("Error: Invalid parse result"))

\* Forced branch, lines 34-47: success object, error object, or the throw.
ForcedBranch(parseResult, status, data, resp) ==
    IF "parsed" \in DOMAIN parseResult
    THEN [isValid |-> TRUE, status |-> status, data |-> data, response |-> resp,
          parsed |-> parseResult.parsed]
    ELSE IF "kind" \in DOMAIN parseResult /\ parseResult.kind # ""
         THEN [isValid |-> FALSE,
               result |-> [data |-> data, status |-> status, response |-> resp]]
              @@ parseResult
         ELSE Thrown(JS("Error: Invalid parse result"))

\* A manual branch that also writes a `parsed` field (left undefined).
ManualBranchWithParsed(handler, status, data, resp) ==
    [isValid |-> TRUE, status |-> status, data |-> data, response |-> resp,
     parsed |-> Undefined,
     parse |-> [response |-> resp, data |-> data, statusKey |-> handler.statusKey]]

\* Manual branch, lines 50-57: `parse` is a closure over minimalResponse, data,
\* the status key and the config object (read when parse() is called).
ManualBranch(handler, status, data, resp) ==
    [isValid |-> TRUE, status |-> status, data |-> data, response |-> resp,
     parse |-> [response |-> resp, data |-> data, statusKey |-> handler.statusKey]]

\* The body of one emitted case, run on a response.
RunHandler(handler, config, resp, rawData) ==
    LET data   == IF handler.dataUndefined THEN Undefined ELSE rawData
        status == ReturnStatus(handler, resp)
    IN  CASE handler.template = "validated" ->
                IF Truthy(config.forceValidation)
                THEN ForcedBranch(ForcedParseResult(handler, config, resp, data),
                                  status, data, resp)
                ELSE ManualBranch(handler, status, data, resp)
          [] handler.template = "simple" ->
                [isValid |-> TRUE, status |-> status, data |-> data, response |-> resp]
          [] handler.template = "bare" ->
                [isValid |-> TRUE, status |-> status, data |-> Undefined,
                 response |-> resp]

\* parse() on a manual-mode object: line 55, with config.deserializers read now.
ManualParse(closure, configDeserializers) ==
    ParseApiResponseUnknownData(closure.response, closure.data,
                                ResponseMap[closure.statusKey],
                                OrEmpty(configDeserializers))

----------------------------------------------------------------------------
(* Spec: one response, handled in both modes *)

\* config.forceValidation: true, false or omitted
ForceValidationValues == {JS("true"), JS("false"), Undefined}

Handler == RenderResponseHandlers(info, hasResponseMap)

None == [none |-> TRUE]

\* The variables of the other specifications, at rest.
RuntimeIdle ==
    /\ hasResponseMap = FALSE
    /\ deserializers = [defined |-> FALSE, map |-> EmptyMap]
    /\ info = None
    /\ response = None
    /\ payload = None
    /\ forced = None
    /\ forcedParse = None
    /\ manual = None
    /\ outcomes = <<>>
    /\ constructedWith = None

BindIdle ==
    /\ operations = EmptyMap
    /\ client = None
    /\ requests = <<>>
    /\ invocations = <<>>

RenameIdle ==
    /\ inputSchemas = None
    /\ inputDoc = None
    /\ openApiDoc = None
    /\ schemas = None
    /\ pc = "idle"
    /\ scanIdx = 0
    /\ candidate = <<>>
    /\ counter = 0
    /\ renameMap = EmptyMap
    /\ returned = -1
    /\ applications = 0

GenerateIdle ==
    /\ options = None
    /\ genPc = "idle"
    /\ limit = 0
    /\ tasks = <<>>
    /\ operationsStarted = FALSE
    /\ packageCreated = FALSE

AnalyzeIdle ==
    /\ theOperation = None
    /\ analysis = None
    /\ union = None
    /\ strategyInput = None
    /\ builtInfo = None

VisitIdle ==
    /\ visitDoc = None
    /\ visitStack = <<>>
    /\ visitCount = 0
    /\ visitRewrites = <<>>

ResolveIdle ==
    /\ typeImports = {}
    /\ resolutions = <<>>
    /\ theRequestBody = None
    /\ requestMap = None

Init ==
    /\ hasResponseMap \in BOOLEAN
    /\ deserializers \in DeserializerChoices
    /\ info \in ResponseInfos
    /\ \E st \in (IF info.statusCode = "default"
                  THEN UndeclaredStatuses
                  ELSE {StatusLiteral(info.statusCode)}), h \in Headers :
          response = [status |-> st, header |-> h]
    /\ payload \in Payloads
    /\ forced = None
    /\ forcedParse = None
    /\ manual = None
    /\ outcomes = <<>>
    /\ constructedWith = None
    /\ BindIdle
    /\ RenameIdle
    /\ GenerateIdle
    /\ AnalyzeIdle
    /\ ResolveIdle
    /\ VisitIdle

\* The generated operation is called with a config whose forceValidation is fv
\* and the response arrives: the emitted case runs.
CallOperation(fv) ==
    LET config == [forceValidation |-> fv, deserializers |-> deserializers]
        result == RunHandler(Handler, config, response, payload)
    IN  /\ IF Truthy(fv)
           THEN /\ forced = None
                /\ forced' = result
                /\ forcedParse' =
                      IF Handler.template = "validated"
                      THEN ForcedParseResult(Handler, config, response, payload)
                      ELSE None
                /\ UNCHANGED <<manual, outcomes, constructedWith>>
           ELSE /\ manual = None
                /\ manual' = result
                /\ outcomes' = <<>>
                /\ constructedWith' = deserializers
                /\ UNCHANGED <<forced, forcedParse>>
        /\ UNCHANGED <<hasResponseMap, deserializers, info, response, payload>>
        /\ UNCHANGED <<bindVars, renameVars, generateVars, analyzeVars, resolveVars,
                   visitVars>>

\* A parse() that deserializes in place: the closure's `data` is overwritten
\* with the deserialized value, so the next call starts from it.
CallParseInPlace ==
    /\ "parse" \in DOMAIN manual
    /\ Len(outcomes) < MaxParseCalls
    /\ outcomes' = Append(outcomes, ManualParse(manual.parse, deserializers))
    /\ manual' = [manual EXCEPT !.parse.data =
                     ApplyDeserializer(OrEmpty(deserializers),
                                       GetResponseContentType(manual.parse.response),
                                       manual.parse.data).deserializedData]
    /\ UNCHANGED <<hasResponseMap, deserializers, info, response, payload,
                   forced, forcedParse, constructedWith>>
    /\ UNCHANGED <<bindVars, renameVars, generateVars, analyzeVars, resolveVars,
                   visitVars>>

\* The caller invokes parse() on the manual-mode object.
CallParse ==
    /\ "parse" \in DOMAIN manual
    /\ Len(outcomes) < MaxParseCalls
    /\ outcomes' = Append(outcomes, ManualParse(manual.parse, deserializers))
    /\ UNCHANGED <<hasResponseMap, deserializers, info, response, payload,
                   forced, forcedParse, manual, constructedWith>>
    /\ UNCHANGED <<bindVars, renameVars, generateVars, analyzeVars, resolveVars,
                   visitVars>>

Next ==
    \/ \E fv \in ForceValidationValues : CallOperation(fv)
    \/ CallParse

Spec == Init /\ [][Next]_vars

\* The caller keeps the config object it passed to the operation and, once the
\* manual-mode object exists, assigns another value to its deserializers
\* property (the property is declared without readonly).
Reconfigure ==
    /\ manual # None
    /\ Len(outcomes) < MaxParseCalls
    /\ \E d \in DeserializerChoices :
          /\ d # deserializers
          /\ deserializers' = d
    /\ UNCHANGED <<hasResponseMap, info, response, payload,
                   forced, forcedParse, manual, outcomes, constructedWith>>
    /\ UNCHANGED <<bindVars, renameVars, generateVars, analyzeVars, resolveVars,
                   visitVars>>

NextReconfigure ==
    \/ \E fv \in ForceValidationValues : CallOperation(fv)
    \/ CallParse
    \/ Reconfigure

SpecReconfigure == Init /\ [][NextReconfigure]_vars

----------------------------------------------------------------------------
(* Claims about the response runtime, checked under Spec *)

\* The results recorded so far of running the parse routine: the forced-mode
\* run's parseResult and every parse() outcome.
ParseResults ==
    (IF forcedParse = None THEN {} ELSE {forcedParse})
        \cup {outcomes[i] : i \in 1..Len(outcomes)}

ParseKinds == {"parse-error", "deserialization-error", "missing-schema"}

IsParsedShape(o) == DOMAIN o = {"contentType", "parsed"}

IsFailureShape(o) == DOMAIN o = {"kind", "error"} /\ o.kind \in ParseKinds

\* The content type the parse routine resolves for the response at hand.
ResolvedContentType == GetResponseContentType(response)

\* The deserializer map the handlers pass on: config.deserializers ?? {}
PassedDeserializers == OrEmpty(deserializers).map

\* The schema map of the status the handler indexes the response map with.
StatusSchemaMap == ResponseMap[Handler.statusKey]

\* C1 - Duality equivalence: for the same payload, Content-Type header, schema
\* map and deserializer map, the forced-mode handler returns a success object
\* exactly when parse() on the manual-mode object yields a parsed result, then
\* with the same parsed data and the same resolved content type; otherwise the
\* forced-mode result is an error (isValid false) of the kind parse() returns.
DualityEquivalence ==
    (forced # None /\ Handler.template = "validated") =>
        \A i \in 1..Len(outcomes) :
            LET o == outcomes[i]
            IN  /\ "isValid" \in DOMAIN forced
                /\ forced.isValid <=> IsParsedShape(o)
                /\ IsParsedShape(o) =>
                      /\ forced.parsed = o.parsed
                      /\ forcedParse.contentType = o.contentType
                /\ ~IsParsedShape(o) =>
                      /\ IsFailureShape(o)
                      /\ forced.kind = o.kind

\* C1 witness: both modes ran on a response whose deserializer changed the
\* payload before validation, forced mode succeeded and parse() was called.
DualityWitness ==
    /\ forced # None
    /\ "parsed" \in DOMAIN forced
    /\ forced.parsed # forced.data
    /\ Has(PassedDeserializers, ResolvedContentType)
    /\ Len(outcomes) > 0

\* C2 - Exactly one of parsed / parse: a success object built for a
\* schema-bearing status of an operation with a response map has `parsed` and no
\* `parse` under a truthy config.forceValidation, and `parse` and no `parsed`
\* under a false or omitted one.
ExactlyOneOfParsedParse ==
    (info.hasSchema /\ hasResponseMap) =>
        /\ (forced # None /\ "isValid" \in DOMAIN forced /\ forced.isValid) =>
              ("parsed" \in DOMAIN forced /\ "parse" \notin DOMAIN forced)
        /\ manual # None =>
              /\ "isValid" \in DOMAIN manual /\ manual.isValid
              /\ "parse" \in DOMAIN manual
              /\ "parsed" \notin DOMAIN manual

\* C2 witness: a schema-bearing status handled successfully in both modes.
ExactlyOneWitness ==
    /\ info.hasSchema /\ hasResponseMap
    /\ forced # None /\ "parsed" \in DOMAIN forced
    /\ manual # None /\ "parse" \in DOMAIN manual

\* C3 - Parse outcomes are data: every run of the parse routine returns exactly
\* one of {contentType, parsed}, parse-error, deserialization-error,
\* missing-schema, also when a deserializer throws, and no handler ends in the
\* forced branch's `throw new Error("Invalid parse result")`.
ParseOutcomesAreData ==
    /\ \A o \in ParseResults : IsParsedShape(o) # IsFailureShape(o)
    /\ "thrown" \notin DOMAIN forced
    /\ "thrown" \notin DOMAIN manual

\* C3 witness: a registered deserializer threw an Error and the forced-mode
\* handler turned it into an error object.
ParseOutcomesWitness ==
    /\ Has(PassedDeserializers, ResolvedContentType)
    /\ PassedDeserializers[ResolvedContentType].throws
    /\ forced # None /\ "kind" \in DOMAIN forced
    /\ forced.kind = "deserialization-error"
    /\ Len(outcomes) > 0

DeserializerThrowIsDeserializationError ==
    (/\ Has(PassedDeserializers, ResolvedContentType)
     /\ PassedDeserializers[ResolvedContentType].throws) =>
        \A o \in ParseResults :
            o = Failure("deserialization-error",
                        ThrownError(PassedDeserializers[ResolvedContentType].thrown))

\* C6 - No schema gives missing-schema: whenever the status's schema map has no
\* schema for the resolved content type (a response without Content-Type
\* included), the parse routine returns kind "missing-schema", whatever
\* deserializers are configured.
MissingSchemaWhateverDeserializers ==
    (Handler.template = "validated" /\ ~Has(StatusSchemaMap, ResolvedContentType)) =>
        \A o \in ParseResults :
            IsFailureShape(o) /\ o.kind = "missing-schema"

\* C7 - Forced parsed structure: when the parse routine succeeds in forced mode
\* the success object's `parsed` field is {data: validated value, contentType:
\* resolved content type}, the default response included.
ForcedParsedIsDataAndContentType ==
    (forced # None /\ "parsed" \in DOMAIN forced) =>
        forced.parsed = [data |-> forcedParse.parsed,
                         contentType |-> forcedParse.contentType]

----------------------------------------------------------------------------
(* SpecBind: configureOperations *)

\* Calls made on bound functions in one behaviour
MaxBoundCalls == 2

\* Input maps, `import * as operations` style: generated operation functions
\* and exports that are not callable (a response map object, a string constant).
OperationMaps ==
    { EmptyMap,
      ("getPetById" :> [callable |-> TRUE, name |-> "getPetById"]),
      ("getPetById" :> [callable |-> TRUE, name |-> "getPetById"])
          @@ ("GetPetByIdResponseMap" :>
                 [callable |-> FALSE, name |-> "GetPetByIdResponseMap"]),
      ("version" :> [callable |-> FALSE, name |-> "version"]),
      ("getPetById" :> [callable |-> TRUE, name |-> "getPetById"])
          @@ ("addPet" :> [callable |-> TRUE, name |-> "addPet"])
          @@ ("version" :> [callable |-> FALSE, name |-> "version"]),
      \* two keys holding the same function
      ("getPetById" :> [callable |-> TRUE, name |-> "getPetById"])
          @@ ("getPet" :> [callable |-> TRUE, name |-> "getPetById"]) }

\* Configuration objects a caller binds or passes per call.
BindConfigs ==
    { [baseURL |-> "https://api.example.com", forceValidation |-> JS("true")],
      [baseURL |-> "https://api.test.com", forceValidation |-> Undefined] }

BindParams == {[petId |-> "123"], [petId |-> "456"]}

\* An argument the caller may leave out.
Absent == [given |-> FALSE, value |-> None]
Given(v) == [given |-> TRUE, value |-> v]

\* configureOperations without the typeof guard: every key is bound.
ConfigureOperationsUnguarded(ops, config) ==
    [key \in DOMAIN ops |-> [op |-> ops[key], config |-> config]]

\* configureOperations, lines 449-460: for every key whose value is a function,
\* bound[key] = (params) => op(params, config), a closure over op and config.
ConfigureOperations(ops, config) ==
    [key \in {k \in DOMAIN ops : ops[k].callable} |->
        [op |-> ops[key], config |-> config]]

\* Calling a bound function with (params, second): the arrow function of line
\* 454 declares one parameter, so it calls op(params, config) whatever else the
\* caller passes.
CallBoundFunction(closure, params, second) ==
    [op |-> closure.op, args |-> <<params, closure.config>>]

InitBind ==
    /\ operations \in OperationMaps
    /\ client = None
    /\ requests = <<>>
    /\ invocations = <<>>
    /\ RuntimeIdle
    /\ RenameIdle
    /\ GenerateIdle
    /\ AnalyzeIdle
    /\ ResolveIdle
    /\ VisitIdle

\* const client = configureOperations(operations, config)
Configure(config) ==
    /\ client' = [config |-> config, bound |-> ConfigureOperations(operations, config)]
    /\ UNCHANGED <<operations, requests, invocations>>
    /\ UNCHANGED <<runtimeVars, renameVars, generateVars, analyzeVars, resolveVars,
                   visitVars>>

\* client[key](params) or client[key](params, second)
CallBound(key, params, second) ==
    /\ client # None
    /\ key \in DOMAIN client.bound
    /\ Len(requests) < MaxBoundCalls
    /\ requests' = Append(requests,
          [key |-> key, params |-> params, second |-> second,
           boundConfig |-> client.config])
    /\ invocations' = Append(invocations,
          CallBoundFunction(client.bound[key], params, second))
    /\ UNCHANGED <<operations, client>>
    /\ UNCHANGED <<runtimeVars, renameVars, generateVars, analyzeVars, resolveVars,
                   visitVars>>

NextBind ==
    \/ \E config \in BindConfigs : Configure(config)
    \/ \E key \in DOMAIN operations, params \in BindParams,
          second \in {Absent} \cup {Given(c) : c \in BindConfigs} :
          CallBound(key, params, second)

SpecBind == InitBind /\ [][NextBind]_vars

\* C8 - configureOperations is a total projection over callable entries: the
\* output has key k exactly when operations[k] is a function, and each call of
\* output[k](params) invokes operations[k] exactly once with (params, bound
\* config); nothing else is invoked.
BoundProjectionIsTotal ==
    /\ client # None =>
          DOMAIN client.bound = {k \in DOMAIN operations : operations[k].callable}
    /\ Len(invocations) = Len(requests)
    /\ \A i \in 1..Len(requests) :
          invocations[i] = [op |-> operations[requests[i].key],
                            args |-> <<requests[i].params, requests[i].boundConfig>>]

\* C8 witness: a map with a callable and a non-callable entry was bound, the
\* non-callable one is absent from the output, and a bound function was called.
BoundProjectionWitness ==
    /\ client # None
    /\ \E k \in DOMAIN operations : ~operations[k].callable
    /\ \E k \in DOMAIN operations : k \in DOMAIN client.bound
    /\ Len(invocations) > 0

\* C9 - Per-call override: when the caller passes an explicit second config
\* argument to a bound function, the underlying operation is invoked with that
\* argument as its config instead of the bound config.
PerCallOverrideReplacesConfig ==
    \A i \in 1..Len(requests) :
        requests[i].second.given =>
            invocations[i].args[2] = requests[i].second.value

----------------------------------------------------------------------------
(* SpecRename: renameConflictingSchemas *)

\* Entries of components.schemas in an input document
MaxSchemas == 3

\* A schema name is a sequence of tokens standing for their concatenation. The
\* names of the model are a base token, optionally followed by "Schema" and by
\* one decimal number; no base token contains "Schema" or a digit, so two such
\* sequences are equal exactly when the strings they stand for are equal.
reservedNames ==
    { <<n>> : n \in
        { "ApiResponse", "ApiResponseError", "ApiResponseWithForcedParse",
          "ApiResponseWithParse", "Blob", "Buffer", "Date", "Error", "File",
          "FormData", "Headers", "Map", "Promise", "ReadableStream", "Request",
          "Response", "Set", "TransformStream", "URL", "URLSearchParams",
          "WeakMap", "WeakSet", "WritableStream" } }

\* Keys an input document may use.
SchemaNames ==
    { <<"Set">>, <<"Set", "Schema">>, <<"Set", "Schema", "2">>,
      <<"Map">>, <<"Map", "Schema">>, <<"Pet">> }

\* A schema value: `id` tells the entries of one document apart; `falsy` marks a
\* value JavaScript treats as false (the boolean schema `false`, or null).
SchemaValue(i, f) == [id |-> i, falsy |-> f]

RECURSIVE EntryLists(_)
EntryLists(n) ==
    IF n = 0
    THEN {<<>>}
    ELSE LET shorter == EntryLists(n - 1)
         IN  shorter \cup
             { Append(l, [key |-> k, value |-> SchemaValue(Len(l) + 1, f)]) :
                 l \in {x \in shorter : Len(x) = n - 1},
                 k \in SchemaNames, f \in BOOLEAN }

DistinctKeys(entries) ==
    \A i, j \in 1..Len(entries) : entries[i].key = entries[j].key => i = j

\* Input documents: no components.schemas at all, or an object with distinct keys.
SchemaObjects ==
    { [present |-> FALSE, entries |-> <<>>] }
    \cup { [present |-> TRUE, entries |-> l] :
             l \in {x \in EntryLists(MaxSchemas) : DistinctKeys(x)} }

HasKey(entries, key) == \E i \in 1..Len(entries) : entries[i].key = key

\* obj[key]: the value stored under key, or undefined
Lookup(entries, key) ==
    IF HasKey(entries, key)
    THEN entries[CHOOSE i \in 1..Len(entries) : entries[i].key = key].value
    ELSE SchemaValue(0, TRUE)

\* obj[key] = value: overwrite in place, or append a new property
Assign(entries, key, value) ==
    IF HasKey(entries, key)
    THEN [i \in 1..Len(entries) |->
            IF entries[i].key = key THEN [key |-> key, value |-> value]
            ELSE entries[i]]
    ELSE Append(entries, [key |-> key, value |-> value])

\* How many times in a row the collision pass is applied to one document.
MaxApplications == 2

\* A first candidate that is itself the name of a runtime global.
ReservedCandidate(originalName) == <<"Map">>

\* Line 602: `${originalName}Schema`
FirstCandidate(originalName) == originalName \o <<"Schema">>

\* Line 608: `${originalName}Schema${counter}`
NumberedCandidate(originalName, n) == originalName \o <<"Schema", ToString(n)>>

\* Lines 604-607: the while condition, schemas[candidate] || renameMap.has(candidate)
CandidateTaken(entries, map, cand) ==
    ~Lookup(entries, cand).falsy \/ Has(map, cand)

\* Lines 617-621: rebuilt[renameMap.get(key) ?? key] = value, in key order
RECURSIVE Rebuild(_, _, _)
Rebuild(entries, map, rebuilt) ==
    IF entries = <<>>
    THEN rebuilt
    ELSE LET e      == Head(entries)
             newKey == IF Has(map, e.key) THEN map[e.key] ELSE e.key
         IN  Rebuild(Tail(entries), map, Assign(rebuilt, newKey, e.value))

----------------------------------------------------------------------------
(* The document outside the keys of components.schemas, as a tree of nodes *)

\* JSON nodes. `fields` is the ordered property list of an object, `items` the
\* elements of an array, `text` the tokens of a string.
Nul        == [t |-> "null",   fields |-> <<>>, items |-> <<>>, text |-> <<>>]
Str(s)     == [t |-> "string", fields |-> <<>>, items |-> <<>>, text |-> s]
Arr(xs)    == [t |-> "array",  fields |-> <<>>, items |-> xs,   text |-> <<>>]
Obj(fs)    == [t |-> "object", fields |-> fs,   items |-> <<>>, text |-> <<>>]
Prop(k, v) == [k |-> k, v |-> v]

\* Line 633
refPrefix == <<"#/components/schemas/">>

\* ref.startsWith(prefix), on token sequences
StartsWith(s, prefix) ==
    Len(s) >= Len(prefix) /\ SubSeq(s, 1, Len(prefix)) = prefix

\* ref.substring(n)
Substring(s, n) == SubSeq(s, n + 1, Len(s))

\* A reference object { $ref: "#/components/schemas/<name>" }
RefNode(name) == Obj(<<Prop("$ref", Str(refPrefix \o name))>>)

\* A reference to something that is not a component schema
OtherRef(name) == Obj(<<Prop("$ref", Str(<<"#/components/responses/">> \o name))>>)

\* A polymorphic schema: oneOf with a discriminator whose mapping names the
\* target schema by reference (OpenAPI "Discriminator Object")
Discriminated(name) ==
    Obj(<<Prop("oneOf", Arr(<<RefNode(name)>>)),
          Prop("discriminator",
               Obj(<<Prop("propertyName", Str(<<"kind">>)),
                     Prop("mapping",
                          Obj(<<Prop("a", Str(refPrefix \o name))>>))>>))>>)

\* A document with a parameter schema `p` (inside the parameters array of an
\* operation), a response body schema `r` under paths, and a request body
\* schema `c` under components.
Document(p, r, c) ==
    Obj(<<Prop("paths",
            Obj(<<Prop("/pets",
              Obj(<<Prop("get",
                Obj(<<Prop("operationId", Str(<<"list-pets">>)),
                      Prop("parameters",
                        Arr(<<Obj(<<Prop("name", Str(<<"id">>)),
                                    Prop("schema", p)>>)>>)),
                      Prop("responses",
                        Obj(<<Prop("200",
                          Obj(<<Prop("content",
                            Obj(<<Prop("application/json",
                              Obj(<<Prop("schema", r)>>))>>))>>))>>))>>))>>))>>)),
          Prop("components",
            Obj(<<Prop("requestBodies",
              Obj(<<Prop("NewPet",
                Obj(<<Prop("content",
                  Obj(<<Prop("application/json",
                    Obj(<<Prop("schema", c)>>))>>))>>))>>))>>))>>)

\* Input documents
Documents ==
    { Document(RefNode(<<"Set">>), RefNode(<<"Pet">>), Discriminated(<<"Set">>)),
      Document(RefNode(<<"Map">>), RefNode(<<"Set">>), RefNode(<<"Set", "Schema">>)),
      Document(OtherRef(<<"Set">>), Discriminated(<<"Map">>), Nul),
      Document(Nul, RefNode(<<"Pet">>), RefNode(<<"Map">>)),
      Document(RefNode(<<"Set">>), RefNode(<<"Map">>), RefNode(<<"Set">>)) }

RECURSIVE Visit(_, _)
\* Lines 636-656: visit(node)
Visit(node, map) ==
    CASE node.t = "null" -> node
      [] node.t = "string" -> node
      [] node.t = "array" ->
            Arr([i \in 1..Len(node.items) |-> Visit(node.items[i], map)])
      [] node.t = "object" ->
            LET rewrite(f) ==
                    IF /\ f.k = "$ref"
                       /\ f.v.t = "string"
                       /\ StartsWith(f.v.text, refPrefix)
                       /\ Has(map, Substring(f.v.text, Len(refPrefix)))
                    THEN Prop(f.k, Str(refPrefix \o
                                map[Substring(f.v.text, Len(refPrefix))]))
                    ELSE f
                obj == [i \in 1..Len(node.fields) |-> rewrite(node.fields[i])]
            IN  Obj([i \in 1..Len(obj) |-> Prop(obj[i].k, Visit(obj[i].v, map))])

InitRename ==
    /\ inputSchemas \in SchemaObjects
    /\ schemas = inputSchemas
    /\ inputDoc \in Documents
    /\ openApiDoc = inputDoc
    /\ pc = "start"
    /\ scanIdx = 0
    /\ candidate = <<>>
    /\ counter = 0
    /\ renameMap = EmptyMap
    /\ returned = -1
    /\ applications = 1
    /\ RuntimeIdle
    /\ BindIdle
    /\ GenerateIdle
    /\ AnalyzeIdle
    /\ ResolveIdle
    /\ VisitIdle

\* Line 568: without components.schemas the function returns 0.
RenameStart ==
    /\ pc = "start"
    /\ IF schemas.present
       THEN /\ pc' = "scan"
            /\ scanIdx' = 1
            /\ UNCHANGED returned
       ELSE /\ pc' = "done"
            /\ returned' = 0
            /\ UNCHANGED scanIdx
    /\ UNCHANGED <<inputSchemas, schemas, candidate, counter, renameMap>>
    /\ UNCHANGED <<inputDoc, openApiDoc, applications>>
    /\ UNCHANGED <<runtimeVars, bindVars, generateVars, analyzeVars, resolveVars,
                   visitVars>>

\* Lines 600-603: the next key of Object.keys(schemas); a reserved one enters
\* the candidate loop.
RenameScan ==
    /\ pc = "scan"
    /\ scanIdx <= Len(schemas.entries)
    /\ LET originalName == schemas.entries[scanIdx].key
       IN  IF originalName \in reservedNames
           THEN /\ candidate' = FirstCandidate(originalName)
                /\ counter' = 2
                /\ pc' = "probe"
                /\ UNCHANGED scanIdx
           ELSE /\ scanIdx' = scanIdx + 1
                /\ UNCHANGED <<candidate, counter, pc>>
    /\ UNCHANGED <<inputSchemas, schemas, renameMap, returned>>
    /\ UNCHANGED <<inputDoc, openApiDoc, applications>>
    /\ UNCHANGED <<runtimeVars, bindVars, generateVars, analyzeVars, resolveVars,
                   visitVars>>

\* Lines 604-610: one test of the while condition.
RenameProbe ==
    /\ pc = "probe"
    /\ LET originalName == schemas.entries[scanIdx].key
       IN  IF CandidateTaken(schemas.entries, renameMap, candidate)
           THEN /\ candidate' = NumberedCandidate(originalName, counter)
                /\ counter' = counter + 1
                /\ UNCHANGED <<renameMap, scanIdx, pc>>
           ELSE /\ renameMap' = (originalName :> candidate) @@ renameMap
                /\ scanIdx' = scanIdx + 1
                /\ pc' = "scan"
                /\ UNCHANGED <<candidate, counter>>
    /\ UNCHANGED <<inputSchemas, schemas, returned>>
    /\ UNCHANGED <<inputDoc, openApiDoc, applications>>
    /\ UNCHANGED <<runtimeVars, bindVars, generateVars, analyzeVars, resolveVars,
                   visitVars>>

\* Lines 613-657: after the loop, return 0 when nothing collides, else rebuild
\* the object under the new keys, rewrite the references of the whole document
\* and return renameMap.size.
RenameRebuild ==
    /\ pc = "scan"
    /\ scanIdx > Len(schemas.entries)
    /\ IF DOMAIN renameMap = {}
       THEN UNCHANGED <<schemas, openApiDoc>>
       ELSE /\ schemas' = [schemas EXCEPT
                              !.entries = Rebuild(schemas.entries, renameMap, <<>>)]
            /\ openApiDoc' = Visit(openApiDoc, renameMap)
    /\ returned' = Cardinality(DOMAIN renameMap)
    /\ pc' = "done"
    /\ UNCHANGED <<inputSchemas, inputDoc, scanIdx, candidate, counter, renameMap,
                   applications>>
    /\ UNCHANGED <<runtimeVars, bindVars, generateVars, analyzeVars, resolveVars,
                   visitVars>>

\* Lines 567-570: the function is applied to the document a previous
\* application returned; its locals (the collision Map, the loop's candidate
\* and counter) are new in every call.
RenameAgain ==
    /\ pc = "done"
    /\ applications < MaxApplications
    /\ applications' = applications + 1
    /\ inputSchemas' = schemas
    /\ inputDoc' = openApiDoc
    /\ pc' = "start"
    /\ scanIdx' = 0
    /\ candidate' = <<>>
    /\ counter' = 0
    /\ renameMap' = EmptyMap
    /\ returned' = -1
    /\ UNCHANGED <<schemas, openApiDoc>>
    /\ UNCHANGED <<runtimeVars, bindVars, generateVars, analyzeVars, resolveVars,
                   visitVars>>

NextRename ==
    \/ RenameStart
    \/ RenameScan
    \/ RenameProbe
    \/ RenameRebuild
    \/ RenameAgain

SpecRename == InitRename /\ [][NextRename]_vars

\* The names X Schema, X Schema 2, X Schema 3, ... in order.
CandidateAt(originalName, n) ==
    IF n = 1 THEN FirstCandidate(originalName) ELSE NumberedCandidate(originalName, n)

\* The colliding keys of the input document that precede position i.
EarlierColliding(i) ==
    { inputSchemas.entries[j].key : j \in {x \in 1..(i - 1) :
          inputSchemas.entries[x].key \in reservedNames} }

\* Whether `name` is free for the colliding key at position i: not a key of the
\* schema map and not assigned to a colliding key renamed before it.
FreeFor(i, name) ==
    /\ ~HasKey(inputSchemas.entries, name)
    /\ \A x \in EarlierColliding(i) : Has(renameMap, x) => renameMap[x] # name

\* The first free name of the sequence for the colliding key at position i.
FirstFree(i) ==
    LET originalName == inputSchemas.entries[i].key
        n == CHOOSE n \in 1..(MaxSchemas + 2) :
                /\ FreeFor(i, CandidateAt(originalName, n))
                /\ \A m \in 1..(n - 1) : ~FreeFor(i, CandidateAt(originalName, m))
    IN  CandidateAt(originalName, n)

\* C10 - Collision repair: once renameConflictingSchemas has returned, no key is
\* a reserved name; each colliding schema is stored under the first free name
\* of XSchema, XSchema2, ...; the other schemas keep their names; every schema
\* value is stored under exactly one key, none lost; and the return value is
\* the number of renamed schemas.
CollisionRepair ==
    pc = "done" =>
        LET before == inputSchemas.entries
            after  == schemas.entries
        IN  /\ \A i \in 1..Len(after) : after[i].key \notin reservedNames
            /\ DistinctKeys(after)
            /\ Len(after) = Len(before)
            /\ \A i \in 1..Len(before) :
                  LET newKey == IF before[i].key \in reservedNames
                                THEN FirstFree(i)
                                ELSE before[i].key
                  IN  /\ HasKey(after, newKey)
                      /\ Lookup(after, newKey) = before[i].value
            /\ returned = Cardinality({i \in 1..Len(before) :
                                          before[i].key \in reservedNames})


RECURSIVE StringsOf(_)
\* The strings held by the nodes of a tree, at any depth.
StringsOf(node) ==
    CASE node.t = "string" -> {node.text}
      [] node.t = "array" ->
            UNION {StringsOf(node.items[i]) : i \in 1..Len(node.items)}
      [] node.t = "object" ->
            UNION {StringsOf(node.fields[i].v) : i \in 1..Len(node.fields)}
      [] OTHER -> {}

RECURSIVE Repointed(_, _)
\* The tree in which every string that refers to a renamed schema refers to
\* its new name, and nothing else differs.
Repointed(node, map) ==
    CASE node.t = "string" ->
            IF /\ StartsWith(node.text, refPrefix)
               /\ Has(map, Substring(node.text, Len(refPrefix)))
            THEN Str(refPrefix \o map[Substring(node.text, Len(refPrefix))])
            ELSE node
      [] node.t = "array" ->
            Arr([i \in 1..Len(node.items) |-> Repointed(node.items[i], map)])
      [] node.t = "object" ->
            Obj([i \in 1..Len(node.fields) |->
                    Prop(node.fields[i].k, Repointed(node.fields[i].v, map))])
      [] OTHER -> node

\* C11 - Reference rewrite completeness: once renameConflictingSchemas has
\* returned, no node of the document holds a reference to the old name of a
\* renamed schema, every such reference points to the new name, and every
\* other node is as it came in.
ReferenceRewriteComplete ==
    pc = "done" =>
        /\ \A x \in DOMAIN renameMap :
              (refPrefix \o x) \notin StringsOf(openApiDoc)
        /\ openApiDoc = Repointed(inputDoc, renameMap)

----------------------------------------------------------------------------
(* SpecGenerate: generate() and the schema tasks it runs through p-limit *)

\* Line 29
DEFAULT_CONCURRENCY == 10

\* Largest concurrency a caller passes
MaxConcurrency == 2

\* GenerationOptions: concurrency left out or given, generateServer
GenerationOptions ==
    [concurrency : {[given |-> FALSE, value |-> 0]}
                   \cup {[given |-> TRUE, value |-> n] : n \in 0..MaxConcurrency},
     generateServer : BOOLEAN]

\* Line 83: concurrency = DEFAULT_CONCURRENCY
Concurrency(opts) ==
    IF opts.concurrency.given THEN opts.concurrency.value ELSE DEFAULT_CONCURRENCY

\* pLimit(concurrency) throws a TypeError unless concurrency is an integer >= 1
ValidConcurrency(n) == n >= 1

RECURSIVE Text(_)
\* The string a token sequence stands for
Text(tokens) == IF tokens = <<>> THEN "" ELSE Head(tokens) \o Text(Tail(tokens))

Digits == <<"0","1","2","3","4","5","6","7","8","9">>

ToUpperChar(c) ==
    IF \E i \in 1..26 : Lowers[i] = c
    THEN Uppers[CHOOSE i \in 1..26 : Lowers[i] = c]
    ELSE c

IsIdentifierChar(c) ==
    \/ \E i \in 1..26 : Lowers[i] = c \/ Uppers[i] = c
    \/ \E i \in 1..10 : Digits[i] = c
    \/ c \in {"_", "$"}

RECURSIVE CamelCase(_, _)
CamelCase(str, upper) ==
    IF str = ""
    THEN ""
    ELSE IF IsIdentifierChar(Head(str))
         THEN (IF upper THEN ToUpperChar(Head(str)) ELSE Head(str))
              \o CamelCase(Tail(str), FALSE)
         ELSE CamelCase(Tail(str), TRUE)

\* sanitizeIdentifier: the characters an identifier cannot hold are dropped and
\* the letter after them is upper-cased ("user-profile-data" becomes
\* "userProfileData")
SanitizeIdentifier(str) == CamelCase(str, FALSE)

\* str.charAt(0).toUpperCase() + str.slice(1)
Capitalize(str) == IF str = "" THEN "" ELSE ToUpperChar(Head(str)) \o Tail(str)

\* str.includes(sub)
Includes(str, sub) ==
    \E i \in 1..(Len(str) - Len(sub) + 1) : SubSeq(str, i, i + Len(sub) - 1) = sub

\* Property access on a node: obj[k], undefined (Nul) when absent
HasProp(node, k) ==
    node.t = "object" /\ \E i \in 1..Len(node.fields) : node.fields[i].k = k

Get(node, k) ==
    IF HasProp(node, k)
    THEN node.fields[CHOOSE i \in 1..Len(node.fields) : node.fields[i].k = k].v
    ELSE Nul

TruthyNode(node) == node.t # "null" /\ ~(node.t = "string" /\ node.text = <<>>)

\* isReferenceObject of openapi3-ts: the object has a $ref property
IsReferenceObject(node) == HasProp(node, "$ref")

RECURSIVE Flatten(_)
Flatten(ss) == IF ss = <<>> THEN <<>> ELSE Head(ss) \o Flatten(Tail(ss))

RECURSIVE Dedupe(_, _)
\* Map.set: a key set again keeps its first position
Dedupe(names, seen) ==
    IF names = <<>> THEN <<>>
    ELSE IF Head(names) \in seen
         THEN Dedupe(Tail(names), seen)
         ELSE <<Head(names)>> \o Dedupe(Tail(names), seen \cup {Head(names)})

httpMethods == <<"get", "post", "put", "delete", "patch">>

\* forEachOperation: the operations of the document, in path and method order
ForEachOperation(doc) ==
    LET paths == Get(doc, "paths")
    IN  IF ~TruthyNode(paths)
        THEN <<>>
        ELSE Flatten([i \in 1..Len(paths.fields) |->
                Flatten([m \in 1..Len(httpMethods) |->
                    LET operation == Get(paths.fields[i].v, httpMethods[m])
                    IN  IF TruthyNode(operation) THEN <<operation>> ELSE <<>>])])

\* The first element of a sequence of sequences that is not empty, else <<>>
RECURSIVE FirstNonEmpty(_)
FirstNonEmpty(ss) ==
    IF ss = <<>> THEN <<>>
    ELSE IF Head(ss) # <<>> THEN Head(ss) ELSE FirstNonEmpty(Tail(ss))

requestContentTypes ==
    << "application/json", "multipart/form-data",
       "application/x-www-form-urlencoded", "application/octet-stream" >>

responseContentTypes ==
    { "application/json", "application/problem+json", "application/octet-stream",
      "multipart/form-data", "application/pdf" }

\* extractRequestSchemas: the names of the inline request body schemas
ExtractRequestSchemas(doc) ==
    LET ops == ForEachOperation(doc)
        inline(operation) ==
            LET requestBody == Get(operation, "requestBody")
                name == SanitizeIdentifier(Text(Get(operation, "operationId").text))
                           \o "Request"
            IN  IF ~TruthyNode(requestBody) \/ IsReferenceObject(requestBody)
                THEN <<>>
                ELSE FirstNonEmpty([c \in 1..Len(requestContentTypes) |->
                        LET schema == Get(Get(Get(requestBody, "content"),
                                              requestContentTypes[c]), "schema")
                        IN  IF TruthyNode(schema) /\ ~IsReferenceObject(schema)
                            THEN <<name>> ELSE <<>>])
    IN  Dedupe(Flatten([i \in 1..Len(ops) |-> inline(ops[i])]), {})

\* extractResponseSchemas: the names of the inline response schemas
ExtractResponseSchemas(doc) ==
    LET ops == ForEachOperation(doc)
        ofResponse(operation, statusCode, resp) ==
            LET content == Get(resp, "content")
                supported(c) == c \in responseContentTypes \/ Includes(c, "+json")
                keys == IF content.t = "object"
                        THEN [i \in 1..Len(content.fields) |-> content.fields[i].k]
                        ELSE <<>>
                first == SelectSeq(keys, supported)
                id == SanitizeIdentifier(Text(Get(operation, "operationId").text))
                suffix == IF statusCode = "default" THEN "DefaultResponse"
                          ELSE statusCode \o "Response"
            IN  IF IsReferenceObject(resp) \/ ~TruthyNode(content) \/ first = <<>>
                THEN <<>>
                ELSE LET schema == Get(Get(content, Head(first)), "schema")
                     IN  IF TruthyNode(schema) /\ ~IsReferenceObject(schema)
                         THEN <<Capitalize(id) \o suffix>>
                         ELSE <<>>
        ofOperation(operation) ==
            LET responses == Get(operation, "responses")
            IN  IF ~TruthyNode(responses)
                THEN <<>>
                ELSE Flatten([i \in 1..Len(responses.fields) |->
                        ofResponse(operation, responses.fields[i].k,
                                   responses.fields[i].v)])
    IN  Dedupe(Flatten([i \in 1..Len(ops) |-> ofOperation(ops[i])]), {})

\* isPlainSchemaObject, on the schema values of the model: a falsy value is not
\* one, every other value is an object with a schema property
IsPlainSchemaObject(value) == ~value.falsy

\* A task handed to limit(): `name` is the identifier of the schema it writes
\* (and of its file), `strict` its flavor; `late` tells whether it started or
\* wrote its file after another task had failed
Task(name, strict) ==
    [name |-> name, strict |-> strict, state |-> "queued", late |-> FALSE,
     overwrote |-> FALSE]

\* schemaFile.fileName of the task: `${name}.ts`
FileName(task) == task.name \o ".ts"

\* Lines 143-167: one task per name, and with generateServer its Strict twin
CreateSchemaGenerationPromises(names, generateServer) ==
    Flatten([i \in 1..Len(names) |->
        <<Task(names[i], FALSE)>> \o
        (IF generateServer THEN <<Task(names[i] \o "Strict", TRUE)>> ELSE <<>>)])

\* Lines 442-493: the same for the plain schema objects of components.schemas,
\* under their sanitized names
GenerateComponentSchemas(entries, generateServer) ==
    LET plain == SelectSeq(entries, LAMBDA e : IsPlainSchemaObject(e.value))
    IN  CreateSchemaGenerationPromises(
            [i \in 1..Len(plain) |-> SanitizeIdentifier(Text(plain[i].key))],
            generateServer)

\* Lines 418-433
SchemaGenerationPromises(entries, doc, generateServer) ==
    GenerateComponentSchemas(entries, generateServer)
    \o CreateSchemaGenerationPromises(ExtractRequestSchemas(doc), generateServer)
    \o CreateSchemaGenerationPromises(ExtractResponseSchemas(doc), generateServer)

\* Input documents of generate(): no components.schemas; one schema; a schema
\* with a reserved name; a reserved name next to a boolean schema; a schema
\* next to one whose name ends in Strict
GenerateSchemaObjects ==
    { [present |-> FALSE, entries |-> <<>>],
      [present |-> TRUE, entries |->
          <<[key |-> <<"Pet">>, value |-> SchemaValue(1, FALSE)]>>],
      [present |-> TRUE, entries |->
          <<[key |-> <<"Set">>, value |-> SchemaValue(1, FALSE)],
            [key |-> <<"Pet">>, value |-> SchemaValue(2, FALSE)]>>],
      [present |-> TRUE, entries |->
          <<[key |-> <<"Set">>, value |-> SchemaValue(1, FALSE)],
            [key |-> <<"Set", "Schema">>, value |-> SchemaValue(2, TRUE)]>>],
      [present |-> TRUE, entries |->
          <<[key |-> <<"Pet">>, value |-> SchemaValue(1, FALSE)],
            [key |-> <<"Pet", "Strict">>, value |-> SchemaValue(2, FALSE)]>>] }

GenerateDocuments ==
    { Document(RefNode(<<"Set">>), RefNode(<<"Pet">>), Nul),
      Document(Nul, Discriminated(<<"Pet">>), Nul) }

\* Most tasks one generate() hands to p-limit: up to two component schemas and
\* one inline response schema, each with its Strict twin
MaxTasks == 6

ActiveCount == Cardinality({i \in 1..Len(tasks) : tasks[i].state = "running"})

AnyFailed == \E i \in 1..Len(tasks) : tasks[i].state = "failed"

AllWritten == \A i \in 1..Len(tasks) : tasks[i].state = "written"

\* Line 93: `await parseAndPreprocessOpenAPI(input)` has its value
PreprocessStarted == pc # "idle"

PreprocessReturned == pc = "done"

\* p-limit starts a queued function only while fewer than `concurrency` run
SlotAlwaysFree == TRUE

SlotFree == ActiveCount < limit

InitGenerate ==
    /\ options \in GenerationOptions
    /\ inputSchemas \in GenerateSchemaObjects
    /\ schemas = inputSchemas
    /\ inputDoc \in GenerateDocuments
    /\ openApiDoc = inputDoc
    /\ pc = "idle"
    /\ scanIdx = 0
    /\ candidate = <<>>
    /\ counter = 0
    /\ renameMap = EmptyMap
    /\ returned = -1
    /\ applications = 1
    /\ genPc = "start"
    /\ limit = 0
    /\ tasks = <<>>
    /\ operationsStarted = FALSE
    /\ packageCreated = FALSE
    /\ RuntimeIdle
    /\ BindIdle
    /\ AnalyzeIdle
    /\ ResolveIdle
    /\ VisitIdle

\* Lines 91-93 and 515-548: the output directory is made and the input parsed;
\* when both the bundling and the fallback parse throw, generate() rejects,
\* else the collision pre-pass begins.
GenerateStart(parses) ==
    /\ genPc = "start"
    /\ IF parses
       THEN genPc' = "preprocess" /\ pc' = "start"
       ELSE genPc' = "rejected" /\ UNCHANGED pc
    /\ UNCHANGED <<options, limit, tasks, operationsStarted, packageCreated>>
    /\ UNCHANGED <<inputSchemas, inputDoc, openApiDoc, schemas, scanIdx,
                   candidate, counter, renameMap, returned, applications>>
    /\ UNCHANGED <<runtimeVars, bindVars, analyzeVars, resolveVars,
                   visitVars>>

\* Lines 95-101 and 395-433: generateAllSchemas up to its await
GenerateAllSchemas ==
    /\ genPc = "preprocess"
    /\ PreprocessReturned
    /\ IF ~schemas.present
       THEN genPc' = "schemas" /\ UNCHANGED <<limit, tasks>>
       ELSE IF ~ValidConcurrency(Concurrency(options))
       THEN genPc' = "rejected" /\ UNCHANGED <<limit, tasks>>
       ELSE /\ limit' = Concurrency(options)
            /\ tasks' = SchemaGenerationPromises(schemas.entries, openApiDoc,
                                                 options.generateServer)
            /\ genPc' = "schemas"
    /\ UNCHANGED <<options, operationsStarted, packageCreated>>
    /\ UNCHANGED <<runtimeVars, bindVars, renameVars, analyzeVars, resolveVars,
                   visitVars>>

\* p-limit runs the oldest queued function when a slot is free
TaskStart ==
    /\ \E i \in 1..Len(tasks) :
          /\ tasks[i].state = "queued"
          /\ \A j \in 1..(i - 1) : tasks[j].state # "queued"
          /\ SlotFree
          /\ tasks' = [tasks EXCEPT ![i].state = "running", ![i].late = AnyFailed]
    /\ UNCHANGED <<options, genPc, limit, operationsStarted, packageCreated>>
    /\ UNCHANGED <<runtimeVars, bindVars, renameVars, analyzeVars, resolveVars,
                   visitVars>>

\* Lines 460-465: the schema file is generated and written
TaskWrite(i) ==
    /\ i \in 1..Len(tasks)
    /\ tasks[i].state = "running"
    /\ tasks' = [tasks EXCEPT ![i].state = "written",
                              ![i].late = tasks[i].late \/ AnyFailed,
                              ![i].overwrote =
                                  \E j \in 1..Len(tasks) :
                                      /\ j # i
                                      /\ tasks[j].state = "written"
                                      /\ FileName(tasks[j]) = FileName(tasks[i])]
    /\ UNCHANGED <<options, genPc, limit, operationsStarted, packageCreated>>
    /\ UNCHANGED <<runtimeVars, bindVars, renameVars, analyzeVars, resolveVars,
                   visitVars>>

\* Lines 460-465: the generator or the write rejects
TaskFail(i) ==
    /\ i \in 1..Len(tasks)
    /\ tasks[i].state = "running"
    /\ tasks' = [tasks EXCEPT ![i].state = "failed"]
    /\ UNCHANGED <<options, genPc, limit, operationsStarted, packageCreated>>
    /\ UNCHANGED <<runtimeVars, bindVars, renameVars, analyzeVars, resolveVars,
                   visitVars>>

\* Line 435: Promise.all rejects with the first rejection
AwaitSchemasRejected ==
    /\ genPc = "schemas"
    /\ AnyFailed
    /\ genPc' = "rejected"
    /\ UNCHANGED <<options, limit, tasks, operationsStarted, packageCreated>>
    /\ UNCHANGED <<runtimeVars, bindVars, renameVars, analyzeVars, resolveVars,
                   visitVars>>

\* Lines 435 and 103: Promise.all resolves and generateAllOperations is called
GenerateAllOperations ==
    /\ genPc = "schemas"
    /\ AllWritten
    /\ genPc' = "operations"
    /\ operationsStarted' = TRUE
    /\ UNCHANGED <<options, limit, tasks, packageCreated>>
    /\ UNCHANGED <<runtimeVars, bindVars, renameVars, analyzeVars, resolveVars,
                   visitVars>>

\* Lines 103-111: generateAllOperations settles; createPackageJson is called
CreatePackageJson(generated) ==
    /\ genPc = "operations"
    /\ IF generated
       THEN genPc' = "package" /\ packageCreated' = TRUE
       ELSE genPc' = "rejected" /\ UNCHANGED packageCreated
    /\ UNCHANGED <<options, limit, tasks, operationsStarted>>
    /\ UNCHANGED <<runtimeVars, bindVars, renameVars, analyzeVars, resolveVars,
                   visitVars>>

\* Line 111: createPackageJson settles and generate() with it
GenerateSettle(written) ==
    /\ genPc = "package"
    /\ genPc' = IF written THEN "resolved" ELSE "rejected"
    /\ UNCHANGED <<options, limit, tasks, operationsStarted, packageCreated>>
    /\ UNCHANGED <<runtimeVars, bindVars, renameVars, analyzeVars, resolveVars,
                   visitVars>>

NextGenerate ==
    \/ \E parses \in BOOLEAN : GenerateStart(parses)
    \/ RenameStart
    \/ RenameScan
    \/ RenameProbe
    \/ RenameRebuild
    \/ GenerateAllSchemas
    \/ TaskStart
    \/ \E i \in 1..Len(tasks) : TaskWrite(i)
    \/ \E i \in 1..Len(tasks) : TaskFail(i)
    \/ AwaitSchemasRejected
    \/ GenerateAllOperations
    \/ \E generated \in BOOLEAN : CreatePackageJson(generated)
    \/ \E written \in BOOLEAN : GenerateSettle(written)

SpecGenerate == InitGenerate /\ [][NextGenerate]_vars

\* Every function p-limit started settles, and p-limit starts the next queued
\* function once a slot is free; generate() itself continues after each await.
SpecGenerateLive ==
    /\ SpecGenerate
    /\ WF_vars(TaskStart)
    /\ \A i \in 1..MaxTasks : WF_vars(TaskWrite(i) \/ TaskFail(i))
    /\ WF_vars(GenerateAllOperations)

\* The names of the tasks made for component schemas whose key is `key`
NamesFor(key) ==
    {SanitizeIdentifier(Text(key)), SanitizeIdentifier(Text(key)) \o "Strict"}

\* C12 - Happens-before barrier: whenever generate() is past the pre-pass (a
\* schema task exists, or generation of schemas, operations or package.json
\* has begun), renameConflictingSchemas has returned, and no task carries the
\* name a renamed schema had before the pass.
HappensBeforeBarrier ==
    (tasks # <<>> \/ operationsStarted \/ packageCreated
       \/ genPc \in {"schemas", "operations", "package", "resolved"}) =>
        /\ pc = "done"
        /\ \A key \in DOMAIN renameMap, i \in 1..Len(tasks) :
              tasks[i].name \notin NamesFor(key)

HappensBeforeWitness ==
    /\ DOMAIN renameMap # {}
    /\ openApiDoc # inputDoc
    /\ \E i \in 1..Len(tasks) : tasks[i].state = "running"

Queued(i) == i \in 1..Len(tasks) /\ tasks[i].state = "queued"

\* C13 - Bounded worker pool: never more than `concurrency` tasks run at once
\* (10 when the caller gives none); generateAllSchemas is left only when every
\* task has finished; and, unless a task fails, every queued task gets to run.
BoundedWorkerPool ==
    /\ [](limit > 0 =>
            /\ limit = (IF options.concurrency.given
                        THEN options.concurrency.value ELSE 10)
            /\ ActiveCount <= limit)
    /\ [](operationsStarted => AllWritten)
    /\ \A i \in 1..MaxTasks :
          Queued(i) ~> (AnyFailed \/ ~Queued(i))
    /\ (tasks # <<>>) ~> (AnyFailed \/ (AllWritten /\ operationsStarted))

BoundedWorkerPoolWitness ==
    /\ limit > 0
    /\ ActiveCount = limit
    /\ \E i \in 1..Len(tasks) : tasks[i].state = "queued"
    /\ \E i \in 1..Len(tasks) : tasks[i].state = "written"

\* C14 - Fail-fast: once a schema task has failed, generate() does not resolve,
\* generateAllOperations and createPackageJson are not called, and no other
\* task starts or writes its file.
FailFast ==
    AnyFailed =>
        /\ genPc \in {"schemas", "rejected"}
        /\ ~operationsStarted
        /\ ~packageCreated
        /\ \A i \in 1..Len(tasks) : ~tasks[i].late

\* C18 - Loose and strict types never collide: among the schema tasks of one
\* run, no strict-flavor schema has the identifier of a loose-flavor schema.
LooseStrictNeverCollide ==
    \A i, j \in 1..Len(tasks) :
        (tasks[i].strict /\ ~tasks[j].strict) => tasks[i].name # tasks[j].name

----------------------------------------------------------------------------
(* SpecAnalyze: the response analysis of one operation *)

\* Responses one operation declares
MaxResponses == 3

\* A schema position of a media type: no schema, a reference, or an inline schema
NoSchema     == [kind |-> "none", ref |-> ""]
RefTo(ref)   == [kind |-> "ref", ref |-> ref]
InlineSchema == [kind |-> "inline", ref |-> ""]

IsRef(schema) == schema.kind = "ref"

Media(contentType, schema) == [contentType |-> contentType, schema |-> schema]

\* response.content of the declared responses, in declaration order
ContentChoices ==
    { <<>>,
      <<Media("application/json", RefTo("#/components/schemas/Pet"))>>,
      <<Media("application/json", RefTo("#/components/schemas/Pet")),
        Media("application/xml", InlineSchema)>>,
      <<Media("text/plain", NoSchema)>> }

\* Keys of operation.responses
ResponseCodes == {"200", "404", "2XX", "default"}

RECURSIVE DeclaredResponses(_)
\* Declarations of at most n responses, in every order, no key twice
DeclaredResponses(n) ==
    IF n = 0
    THEN {<<>>}
    ELSE LET shorter == DeclaredResponses(n - 1)
         IN  shorter \cup
             { Append(l, [code |-> c, content |-> ct]) :
                 l \in {x \in shorter : Len(x) = n - 1 /\
                           \A i \in 1..Len(x) : x[i].code \in ResponseCodes},
                 c \in ResponseCodes, ct \in ContentChoices }

DistinctCodes(decl) ==
    \A i, j \in 1..Len(decl) : decl[i].code = decl[j].code => i = j

Operations ==
    { [operationId |-> "list-pets", hasResponses |-> FALSE, responses |-> <<>>] }
    \cup { [operationId |-> "list-pets", hasResponses |-> TRUE, responses |-> d] :
             d \in {x \in DeclaredResponses(MaxResponses) : DistinctCodes(x)} }

IsDigit(c) == \E i \in 1..10 : Digits[i] = c

DigitValue(c) == (CHOOSE i \in 1..10 : Digits[i] = c) - 1

RECURSIVE ParseDigits(_, _)
ParseDigits(str, acc) ==
    IF str # "" /\ IsDigit(Head(str))
    THEN ParseDigits(Tail(str), 10 * acc + DigitValue(Head(str)))
    ELSE acc

\* parseInt(str, 10) on strings without sign or leading blanks: the number
\* its leading digits spell, NaN when it has none
ParseInt(str) ==
    IF str # "" /\ IsDigit(Head(str))
    THEN [nan |-> FALSE, value |-> ParseDigits(str, 0)]
    ELSE [nan |-> TRUE, value |-> 0]

\* (a, b) => parseInt(a, 10) - parseInt(b, 10); sort reads NaN as 0
CompareCodes(a, b) ==
    IF ParseInt(a).nan \/ ParseInt(b).nan
    THEN 0
    ELSE ParseInt(a).value - ParseInt(b).value

\* A key that is a canonical array index ("200", not "2XX" or "0200")
IsIntegerKey(str) ==
    /\ str # ""
    /\ \A i \in 1..Len(str) : IsDigit(SubSeq(str, i, i))
    /\ (Len(str) > 1 => Head(str) # "0")

RECURSIVE InsertSorted(_, _)
\* Stable insertion of x into a sorted list: after every element not greater
InsertSorted(sorted, x) ==
    IF sorted = <<>> THEN <<x>>
    ELSE IF CompareCodes(x, Head(sorted)) < 0
         THEN <<x>> \o sorted
         ELSE <<Head(sorted)>> \o InsertSorted(Tail(sorted), x)

\* The codes as they stand
UnsortedCodes(codes) == codes

RECURSIVE SortCodes(_)
\* Array.prototype.sort with CompareCodes (stable)
SortCodes(codes) ==
    IF codes = <<>> THEN <<>>
    ELSE InsertSorted(SortCodes(SubSeq(codes, 1, Len(codes) - 1)),
                      codes[Len(codes)])

\* Object.keys: integer keys in ascending order, then the other keys in the
\* order they were declared
ObjectKeys(decl) ==
    LET keys == [i \in 1..Len(decl) |-> decl[i].code]
    IN  SortCodes(SelectSeq(keys, IsIntegerKey))
        \o SelectSeq(keys, LAMBDA k : ~IsIntegerKey(k))

\* operation.responses[code]
ResponseAt(decl, code) ==
    decl[CHOOSE i \in 1..Len(decl) : decl[i].code = code]

HasResponse(decl, code) == \E i \in 1..Len(decl) : decl[i].code = code

\* ref.split("/").pop(): what follows the last slash
LastSegment(str) ==
    LET slashes == {i \in 1..Len(str) : SubSeq(str, i, i) = "/"}
    IN  IF slashes = {}
        THEN str
        ELSE SubSeq(str, (CHOOSE i \in slashes : \A j \in slashes : j <= i) + 1,
                    Len(str))

\* ref.replace("#/components/schemas/", "") on a string that starts with it
AfterPrefix(str, prefix) == SubSeq(str, Len(prefix) + 1, Len(str))

schemasPrefix == "#/components/schemas/"

\* An import set that forgets what it held
ReturnedAlone(name, imports) ==
    [threw |-> FALSE, typeName |-> name, typeImports |-> {name}]

\* What a resolver call did: threw an AssertionError, or returned typeName and
\* left the import set as typeImports
Threw(imports) == [threw |-> TRUE, typeName |-> "", typeImports |-> imports]

Returned(name, imports) ==
    [threw |-> FALSE, typeName |-> name, typeImports |-> imports \cup {name}]

\* `${sanitizedOperationId.charAt(0).toUpperCase() + sanitizedOperationId.slice(1)}`
OperationTypePrefix(operationId) == Capitalize(SanitizeIdentifier(operationId))

\* response-analysis.ts, resolveResponseTypeName
ResolveResponseTypeName(schema, operationId, statusCode, imports) ==
    IF IsRef(schema)
    THEN IF ~StartsWith(schema.ref, schemasPrefix)
         THEN Threw(imports)
         ELSE IF LastSegment(schema.ref) = ""
         THEN Threw(imports)
         ELSE Returned(SanitizeIdentifier(LastSegment(schema.ref)), imports)
    ELSE IF operationId = ""
         THEN Threw(imports)
         ELSE Returned(OperationTypePrefix(operationId) \o statusCode \o "Response",
                       imports)

\* schema-type-resolver.ts, resolveSchemaTypeName
ResolveSchemaTypeName(schema, operationId, suffix, imports) ==
    IF IsRef(schema)
    THEN IF LastSegment(schema.ref) = ""
         THEN Threw(imports)
         ELSE Returned(SanitizeIdentifier(LastSegment(schema.ref)), imports)
    ELSE Returned(OperationTypePrefix(operationId) \o suffix, imports)

\* schema-type-resolver.ts, resolveStrictSchemaTypeName
ResolveStrictSchemaTypeName(schema, operationId, suffix, imports) ==
    IF IsRef(schema)
    THEN IF LastSegment(schema.ref) = ""
         THEN Threw(imports)
         ELSE Returned(SanitizeIdentifier(LastSegment(schema.ref)) \o "Strict",
                       imports)
    ELSE Returned(OperationTypePrefix(operationId) \o suffix \o "Strict", imports)

\* handleReference: result.code and result.imports; it never throws
HandleReference(schema, imports, strictValidation) ==
    IF IsRef(schema) /\ schema.ref # "" /\ StartsWith(schema.ref, schemasPrefix)
    THEN Returned(SanitizeIdentifier(AfterPrefix(schema.ref, schemasPrefix))
                      \o (IF strictValidation THEN "Strict" ELSE ""),
                  imports)
    ELSE [threw |-> FALSE, typeName |-> "z.unknown()", typeImports |-> imports]

\* "json" or "+json" somewhere in the content type
JsonLike(contentType) == Includes(contentType, "json") \/ Includes(contentType, "+json")

\* analyzeContentTypes
AnalyzeContentTypes(content) ==
    LET all == [i \in 1..Len(content) |-> content[i].contentType]
        hasJsonLike == \E i \in 1..Len(all) : JsonLike(all[i])
        hasNonJson  == \E i \in 1..Len(all) : ~JsonLike(all[i])
    IN  [allContentTypes |-> all, hasJsonLike |-> hasJsonLike,
         hasMixedContentTypes |-> hasJsonLike /\ hasNonJson,
         hasNonJson |-> hasNonJson]

\* getResponseContentType of the generator: the content type an operation's
\* response is read as, a JSON one when the response declares one, else the
\* first declared, null without content
PreferredContentType(content) ==
    LET json == SelectSeq(content, LAMBDA m : JsonLike(m.contentType))
    IN  IF content = <<>> THEN JS("null")
        ELSE IF json # <<>> THEN JS(Head(json).contentType)
        ELSE JS(Head(content).contentType)

\* response.content?.[contentType]?.schema
SchemaOf(content, contentType) ==
    LET found == SelectSeq(content, LAMBDA m : m.contentType = contentType)
    IN  IF found = <<>> THEN NoSchema ELSE Head(found).schema

\* A strategy that validates whenever there is a schema
ValidateBySchemaAlone(contentType, hasSchema, contentTypeAnalysis, hasResponseContentTypeMap) ==
    [isJsonLike |-> JsonLike(contentType),
     requiresRuntimeContentTypeCheck |->
         contentTypeAnalysis.hasMixedContentTypes /\ hasResponseContentTypeMap,
     useValidation |-> hasSchema]

\* determineParsingStrategy
DetermineParsingStrategy(contentType, hasSchema, contentTypeAnalysis, hasResponseContentTypeMap) ==
    [isJsonLike |-> JsonLike(contentType),
     requiresRuntimeContentTypeCheck |->
         contentTypeAnalysis.hasMixedContentTypes /\ hasResponseContentTypeMap,
     useValidation |-> hasSchema /\ JsonLike(contentType)]

\* buildResponseTypeInfo: the ResponseInfo, and what resolveResponseTypeName
\* did when it was called
BuildResponseTypeInfo(statusCode, content, operationId, imports, hasResponseContentTypeMap) ==
    LET contentType == PreferredContentType(content)
        schema == IF Truthy(contentType) THEN SchemaOf(content, contentType.js)
                  ELSE NoSchema
        hasSchema == schema.kind # "none"
        resolved == IF hasSchema
                    THEN ResolveResponseTypeName(schema, operationId, statusCode,
                                                 imports)
                    ELSE [threw |-> FALSE, typeName |-> "", typeImports |-> imports]
    IN  [threw |-> resolved.threw,
         typeImports |-> resolved.typeImports,
         info |-> [contentType |-> contentType,
                   hasSchema |-> hasSchema,
                   parsingStrategy |->
                       DetermineParsingStrategy(
                           IF Truthy(contentType) THEN contentType.js ELSE "",
                           hasSchema, AnalyzeContentTypes(content),
                           hasResponseContentTypeMap),
                   statusCode |-> statusCode,
                   typeName |-> IF hasSchema /\ ~resolved.threw
                                THEN JS(resolved.typeName) ELSE JS("null")]]

\* collectResponses: the numeric responses sorted by parseInt, and the default
\* response apart
CollectResponses(op, imports, hasResponseContentTypeMap) ==
    IF ~op.hasResponses
    THEN [threw |-> FALSE, typeImports |-> imports, responses |-> <<>>,
          hasDefault |-> FALSE, defaultResponseInfo |-> None]
    ELSE LET keys == ObjectKeys(op.responses)
             responseCodes == SortCodes(SelectSeq(keys, LAMBDA c : c # "default"))
             built(code) ==
                 BuildResponseTypeInfo(code, ResponseAt(op.responses, code).content,
                                       op.operationId, imports,
                                       hasResponseContentTypeMap)
             all == [i \in 1..Len(responseCodes) |-> built(responseCodes[i])]
                    \o (IF HasResponse(op.responses, "default")
                        THEN <<built("default")>> ELSE <<>>)
         IN  [threw |-> \E i \in 1..Len(all) : all[i].threw,
              typeImports |-> imports \cup
                  UNION {all[i].typeImports : i \in 1..Len(all)},
              responses |-> [i \in 1..Len(responseCodes) |-> all[i].info],
              hasDefault |-> HasResponse(op.responses, "default"),
              defaultResponseInfo |->
                  IF HasResponse(op.responses, "default")
                  THEN all[Len(all)].info ELSE None]

\* generateDiscriminatedUnionTypes: the name of the response map, undefined
\* when no response of the operation carries a schema
ResponseMapName(op) ==
    IF op.operationId # "" /\ \E i \in 1..Len(op.responses) :
          \E j \in 1..Len(op.responses[i].content) :
              op.responses[i].content[j].schema.kind # "none"
    THEN JS(OperationTypePrefix(op.operationId) \o "ResponseMap")
    ELSE Undefined

\* The members buildUnionTypes pushes
StandardMember(responseInfo) ==
    [member |-> "ApiResponse",
     status |-> responseInfo.statusCode,
     data |-> IF Truthy(responseInfo.contentType) THEN "unknown" ELSE "void"]

ValidatedMember(statusCode, mapName) ==
    [member |-> "ApiResponseWithForcedParse | ApiResponseWithParse",
     status |-> statusCode, data |-> "typeof " \o mapName]

UnknownMember(statusCode) ==
    [member |-> "ApiResponse", status |-> statusCode, data |-> "unknown"]

ErrorMember == [member |-> "ApiResponseError", status |-> "", data |-> ""]

\* buildUnionTypes
BuildUnionTypes(collected, mapName) ==
    LET infos == collected.responses
                 \o (IF collected.hasDefault
                     THEN <<collected.defaultResponseInfo>> ELSE <<>>)
        memberOf(responseInfo) ==
            IF ~responseInfo.hasSchema THEN StandardMember(responseInfo)
            ELSE IF Truthy(mapName)
                 THEN ValidatedMember(responseInfo.statusCode, mapName.js)
                 ELSE UnknownMember(responseInfo.statusCode)
    IN  [i \in 1..Len(infos) |-> memberOf(infos[i])] \o <<ErrorMember>>

\* renderResponseHandlers on the analysed responses: the case handlers in the
\* order of the list, the default handler apart
RenderResponseHandlerList(infos, responseMapName) ==
    LET cases == SelectSeq(infos, LAMBDA r : r.statusCode # "default")
        defaults == SelectSeq(infos, LAMBDA r : r.statusCode = "default")
    IN  [caseHandlers |->
             [i \in 1..Len(cases) |-> RenderResponseHandler(cases[i], responseMapName)],
         defaultHandler |->
             IF defaults = <<>> THEN None
             ELSE RenderDefaultResponseHandler(defaults[Len(defaults)],
                                               responseMapName)]

\* analyzeResponseStructure, and the handlers rendered from its responses
AnalyzeResponseStructure(op, hasResponseContentTypeMap) ==
    LET collected == CollectResponses(op, {}, hasResponseContentTypeMap)
        mapName == ResponseMapName(op)
        infos == collected.responses
                 \o (IF collected.hasDefault
                     THEN <<collected.defaultResponseInfo>> ELSE <<>>)
    IN  IF collected.threw
        THEN [threw |-> TRUE]
        ELSE [threw |-> FALSE,
              hasDefault |-> collected.hasDefault,
              defaultResponseInfo |-> collected.defaultResponseInfo,
              responseMapName |-> mapName,
              responses |-> collected.responses,
              typeImports |-> collected.typeImports,
              unionTypes |-> BuildUnionTypes(collected, mapName),
              handlers |-> RenderResponseHandlerList(infos, Truthy(mapName))]

\* extractResponseContentTypes: one group per response that has content (the
\* default response included), its content types in declaration order
ExtractResponseContentTypes(op) ==
    LET keys == ObjectKeys(op.responses)
        withContent == SelectSeq(keys,
                           LAMBDA c : ResponseAt(op.responses, c).content # <<>>)
    IN  [i \in 1..Len(withContent) |->
            [statusCode |-> withContent[i],
             contentTypes |-> ResponseAt(op.responses, withContent[i]).content]]

RECURSIVE ResolveAll(_, _, _, _, _)
\* The resolver calls of one response group, in order, on one import set
ResolveAll(mappings, operationId, statusCode, useStrictSchemas, acc) ==
    IF mappings = <<>> \/ acc.threw
    THEN acc
    ELSE LET r == IF useStrictSchemas
                  THEN ResolveStrictSchemaTypeName(Head(mappings).schema, operationId,
                           statusCode \o "Response", acc.typeImports)
                  ELSE ResolveSchemaTypeName(Head(mappings).schema, operationId,
                           statusCode \o "Response", acc.typeImports)
         IN  ResolveAll(Tail(mappings), operationId, statusCode, useStrictSchemas,
                 [threw |-> r.threw,
                  typeImports |-> r.typeImports,
                  unionMembers |-> IF r.threw THEN acc.unionMembers
                      ELSE Append(acc.unionMembers,
                               [contentType |-> JS(Head(mappings).contentType),
                                dataType |-> JS(r.typeName),
                                statusCode |-> statusCode])])

RECURSIVE UnionOfCodes(_, _, _, _, _)
\* Lines 73-105: the loop over allStatusCodes
UnionOfCodes(codes, groups, operationId, useStrictSchemas, acc) ==
    IF codes = <<>> \/ acc.threw
    THEN acc
    ELSE LET statusCode == Head(codes)
             found == SelectSeq(groups, LAMBDA g : g.statusCode = statusCode)
             next == IF found # <<>>
                     THEN ResolveAll(Head(found).contentTypes, operationId,
                                     statusCode, useStrictSchemas, acc)
                     ELSE [acc EXCEPT !.unionMembers =
                              Append(@, [contentType |-> Undefined,
                                         dataType |-> Undefined,
                                         statusCode |-> statusCode])]
         IN  UnionOfCodes(Tail(codes), groups, operationId, useStrictSchemas, next)

\* generateResponseUnion
GenerateResponseUnion(op, operationId, imports, useStrictSchemas) ==
    LET start == [threw |-> FALSE, typeImports |-> imports, unionMembers |-> <<>>]
    IN  IF ~op.hasResponses
        THEN [start EXCEPT !.unionMembers =
                 <<[contentType |-> Undefined, dataType |-> Undefined,
                    statusCode |-> "200"]>>]
        ELSE UnionOfCodes(
                 SortCodes(SelectSeq(ObjectKeys(op.responses),
                                     LAMBDA c : c # "default")),
                 ExtractResponseContentTypes(op), operationId, useStrictSchemas,
                 start)

InitAnalyze ==
    /\ theOperation \in Operations
    /\ analysis = None
    /\ union = None
    /\ strategyInput = None
    /\ builtInfo = None
    /\ RuntimeIdle
    /\ BindIdle
    /\ RenameIdle
    /\ GenerateIdle
    /\ ResolveIdle
    /\ VisitIdle

\* The client generator analyses the operation.
Analyze(hasResponseContentTypeMap) ==
    /\ analysis = None
    /\ analysis' = AnalyzeResponseStructure(theOperation, hasResponseContentTypeMap)
    /\ UNCHANGED <<theOperation, union, strategyInput, builtInfo>>
    /\ UNCHANGED <<runtimeVars, bindVars, renameVars, generateVars, resolveVars,
                   visitVars>>

\* The shared union generator runs on the operation, for the client (loose) or
\* for the server (strict).
Unite(useStrictSchemas) ==
    /\ union = None
    /\ union' = GenerateResponseUnion(theOperation, theOperation.operationId, {},
                                      useStrictSchemas)
    /\ UNCHANGED <<theOperation, analysis, strategyInput, builtInfo>>
    /\ UNCHANGED <<runtimeVars, bindVars, renameVars, generateVars, resolveVars,
                   visitVars>>

NextAnalyze ==
    \/ \E hasResponseContentTypeMap \in BOOLEAN : Analyze(hasResponseContentTypeMap)
    \/ \E useStrictSchemas \in BOOLEAN : Unite(useStrictSchemas)

SpecAnalyze == InitAnalyze /\ [][NextAnalyze]_vars

\* The keys the operation declares, in declaration order
DeclaredCodes ==
    [i \in 1..Len(theOperation.responses) |-> theOperation.responses[i].code]

Analyzed == analysis # None /\ ~analysis.threw

United == union # None /\ ~union.threw

\* C15 - Status ordering: the analysis lists every declared status other than
\* "default" once, the numeric ones in strictly ascending order; the union
\* follows that list, then "default" if declared, then ApiResponseError as its
\* one last member; the case handlers follow the same list.
StatusOrdering ==
    Analyzed =>
        LET rs == analysis.responses
            us == analysis.unionTypes
            hs == analysis.handlers
        IN  /\ \A i \in 1..Len(rs) : rs[i].statusCode # "default"
            /\ \A i, j \in 1..Len(rs) : rs[i].statusCode = rs[j].statusCode => i = j
            /\ {rs[i].statusCode : i \in 1..Len(rs)}
                  = {DeclaredCodes[i] : i \in 1..Len(DeclaredCodes)} \ {"default"}
            /\ \A i, j \in 1..Len(rs) :
                  (i < j /\ IsIntegerKey(rs[i].statusCode)
                         /\ IsIntegerKey(rs[j].statusCode)) =>
                      ParseInt(rs[i].statusCode).value
                          < ParseInt(rs[j].statusCode).value
            /\ analysis.hasDefault
                  = (\E i \in 1..Len(DeclaredCodes) : DeclaredCodes[i] = "default")
            /\ Len(us) = Len(rs) + (IF analysis.hasDefault THEN 1 ELSE 0) + 1
            /\ \A i \in 1..Len(rs) : us[i].status = rs[i].statusCode
            /\ analysis.hasDefault => us[Len(rs) + 1].status = "default"
            /\ us[Len(us)] = ErrorMember
            /\ \A i \in 1..(Len(us) - 1) : us[i] # ErrorMember
            /\ Len(hs.caseHandlers) = Len(rs)
            /\ \A i \in 1..Len(rs) : hs.caseHandlers[i].statusKey = rs[i].statusCode
            /\ (hs.defaultHandler # None) = analysis.hasDefault

StatusOrderingWitness ==
    /\ Analyzed
    /\ Len(DeclaredCodes) = 3
    /\ DeclaredCodes[1] = "default"
    /\ DeclaredCodes[2] = "404"
    /\ DeclaredCodes[3] = "200"

\* The (response, media type) positions the operation declares with a schema
SchemaPairs ==
    UNION { { <<i, j>> : j \in {k \in 1..Len(theOperation.responses[i].content) :
                  theOperation.responses[i].content[k].schema.kind # "none"} } :
            i \in 1..Len(theOperation.responses) }

\* The responses the operation declares with no schema at all
SchemalessResponses ==
    {i \in 1..Len(theOperation.responses) : \A p \in SchemaPairs : p[1] # i}

ExpectedMembers == Cardinality(SchemaPairs) + Cardinality(SchemalessResponses) + 1

\* C16 - Union completeness: the response union of an operation has exactly one
\* member per (status, content type) pair with a schema, exactly one void member
\* per status without schema, and exactly one terminal error member, from
\* generateResponseUnion and from buildUnionTypes alike.
UnionCompleteness ==
    /\ (United /\ theOperation.hasResponses) =>
          LET ms == union.unionMembers
              rs == theOperation.responses
          IN  /\ Len(ms) = ExpectedMembers
              /\ \A p \in SchemaPairs :
                    Cardinality({k \in 1..Len(ms) :
                        /\ ms[k].statusCode = rs[p[1]].code
                        /\ ms[k].contentType = JS(rs[p[1]].content[p[2]].contentType)
                        /\ ms[k].dataType # Undefined}) = 1
              /\ \A i \in SchemalessResponses :
                    Cardinality({k \in 1..Len(ms) :
                        /\ ms[k].statusCode = rs[i].code
                        /\ ms[k].dataType = Undefined}) = 1
    /\ (Analyzed /\ theOperation.hasResponses) =>
          LET us == analysis.unionTypes
          IN  /\ Len(us) = ExpectedMembers
              /\ Cardinality({k \in 1..Len(us) : us[k] = ErrorMember}) = 1
              /\ us[Len(us)] = ErrorMember

----------------------------------------------------------------------------
(* SpecResolve: resolver calls on one import set *)

\* Resolver calls on the one import set
MaxResolutions == 3

\* The schemas handed to the resolvers
ResolverSchemas ==
    { RefTo("#/components/schemas/user-profile"),
      RefTo("#/components/responses/Pet"),
      RefTo("#/components/schemas/"),
      InlineSchema }

\* One resolver call and what it did
Resolution(fn, schema, before, r) ==
    [fn |-> fn, schema |-> schema, threw |-> r.threw, typeName |-> r.typeName,
     importsBefore |-> before, importsAfter |-> r.typeImports]

InitResolve ==
    /\ typeImports = {}
    /\ resolutions = <<>>
    /\ theRequestBody = None
    /\ requestMap = None
    /\ RuntimeIdle
    /\ BindIdle
    /\ RenameIdle
    /\ GenerateIdle
    /\ AnalyzeIdle
    /\ VisitIdle

\* Each action is one call: the call is recorded, and the import set is what
\* the call left of it.
CallResolveResponseTypeName(schema) ==
    LET r == ResolveResponseTypeName(schema, "list-pets", "200", typeImports)
    IN  /\ Len(resolutions) < MaxResolutions
        /\ typeImports' = r.typeImports
        /\ resolutions' = Append(resolutions,
               Resolution("resolveResponseTypeName", schema, typeImports, r))
        /\ UNCHANGED <<theRequestBody, requestMap>>
        /\ UNCHANGED <<runtimeVars, bindVars, renameVars, generateVars, analyzeVars,
                   visitVars>>

CallResolveSchemaTypeName(schema) ==
    LET r == ResolveSchemaTypeName(schema, "list-pets", "200Response", typeImports)
    IN  /\ Len(resolutions) < MaxResolutions
        /\ typeImports' = r.typeImports
        /\ resolutions' = Append(resolutions,
               Resolution("resolveSchemaTypeName", schema, typeImports, r))
        /\ UNCHANGED <<theRequestBody, requestMap>>
        /\ UNCHANGED <<runtimeVars, bindVars, renameVars, generateVars, analyzeVars,
                   visitVars>>

CallResolveStrictSchemaTypeName(schema) ==
    LET r == ResolveStrictSchemaTypeName(schema, "list-pets", "200Response",
                                         typeImports)
    IN  /\ Len(resolutions) < MaxResolutions
        /\ typeImports' = r.typeImports
        /\ resolutions' = Append(resolutions,
               Resolution("resolveStrictSchemaTypeName", schema, typeImports, r))
        /\ UNCHANGED <<theRequestBody, requestMap>>
        /\ UNCHANGED <<runtimeVars, bindVars, renameVars, generateVars, analyzeVars,
                   visitVars>>

CallHandleReference(schema, strictValidation) ==
    LET r == HandleReference(schema, typeImports, strictValidation)
    IN  /\ Len(resolutions) < MaxResolutions
        /\ typeImports' = r.typeImports
        /\ resolutions' = Append(resolutions,
               Resolution("handleReference", schema, typeImports, r))
        /\ UNCHANGED <<theRequestBody, requestMap>>
        /\ UNCHANGED <<runtimeVars, bindVars, renameVars, generateVars, analyzeVars,
                   visitVars>>

NextResolve ==
    \/ \E schema \in ResolverSchemas : CallResolveResponseTypeName(schema)
    \/ \E schema \in ResolverSchemas : CallResolveSchemaTypeName(schema)
    \/ \E schema \in ResolverSchemas : CallResolveStrictSchemaTypeName(schema)
    \/ \E schema \in ResolverSchemas, strictValidation \in BOOLEAN :
          CallHandleReference(schema, strictValidation)

SpecResolve == InitResolve /\ [][NextResolve]_vars

Unsupported(schema) ==
    /\ IsRef(schema)
    /\ \/ ~StartsWith(schema.ref, schemasPrefix)
       \/ LastSegment(schema.ref) = ""

\* C19 - Unsupported references are fatal: every resolver call on an
\* unsupported $ref throws, returns no identifier and leaves the import set as
\* it was.
UnsupportedReferenceFatal ==
    \A i \in 1..Len(resolutions) :
        Unsupported(resolutions[i].schema) =>
            /\ resolutions[i].threw
            /\ resolutions[i].importsAfter = resolutions[i].importsBefore

----------------------------------------------------------------------------
(* SpecRequestMap: the server request body map of one operation *)

\* Content types one request body declares
MaxContentTypes == 2

RequestContentTypes ==
    {"application/json", "application/x-www-form-urlencoded", "multipart/form-data"}

RequestSchemas ==
    { RefTo("#/components/schemas/Pet"),
      RefTo("#/components/schemas/user-profile"),
      InlineSchema }

RECURSIVE ContentMaps(_)
\* requestBody.content with at most n media types, in every declaration order,
\* no content type twice
ContentMaps(n) ==
    IF n = 0
    THEN {<<>>}
    ELSE LET shorter == ContentMaps(n - 1)
         IN  shorter \cup
             { Append(l, Media(c, sch)) :
                 l \in {x \in shorter : Len(x) = n - 1},
                 c \in RequestContentTypes, sch \in RequestSchemas }

DistinctContentTypes(content) ==
    \A i, j \in 1..Len(content) :
        content[i].contentType = content[j].contentType => i = j

\* operation.requestBody: absent, or { required, content }
RequestBodies ==
    { [present |-> FALSE, required |-> FALSE, content |-> <<>>] }
    \cup { [present |-> TRUE, required |-> r, content |-> c] :
             r \in BOOLEAN,
             c \in {x \in ContentMaps(MaxContentTypes) : DistinctContentTypes(x)} }

\* The media types taken last declared first
ExtractReversedContentTypes(body) ==
    [isRequired |-> body.required,
     contentTypes |-> [i \in 1..Len(body.content) |->
                          body.content[Len(body.content) + 1 - i]]]

\* extractRequestContentTypes: the media types of requestBody.content in
\* declaration order, an empty list for an empty content map
ExtractRequestContentTypes(body) ==
    [isRequired |-> body.required, contentTypes |-> body.content]

RECURSIVE JoinLines(_)
\* requestMappings.join("\n")
JoinLines(lines) ==
    IF lines = <<>> THEN ""
    ELSE IF Len(lines) = 1 THEN lines[1]
    ELSE lines[1] \o "\n" \o JoinLines(Tail(lines))

RECURSIVE RequestMappings(_, _, _)
\* Lines 77-87: the map() over the content types, on the caller's import set
RequestMappings(mappings, operationId, acc) ==
    IF mappings = <<>> \/ acc.threw
    THEN acc
    ELSE LET mapping == Head(mappings)
             r == ResolveStrictSchemaTypeName(mapping.schema, operationId,
                                              "Request", acc.typeImports)
         IN  RequestMappings(Tail(mappings), operationId,
                 [threw |-> r.threw,
                  typeImports |-> r.typeImports,
                  contentTypeMappings |-> Append(acc.contentTypeMappings, mapping),
                  lines |-> IF r.threw THEN acc.lines
                            ELSE Append(acc.lines,
                                     "  \"" \o mapping.contentType \o "\": "
                                         \o r.typeName \o ";")])

\* generateServerRequestBodyMap: the result, and the caller's import set after it
GenerateServerRequestBodyMap(body, operationId, imports) ==
    LET extracted == ExtractRequestContentTypes(body)
        count == Len(extracted.contentTypes)
        done == RequestMappings(extracted.contentTypes, operationId,
                    [threw |-> FALSE, typeImports |-> imports,
                     contentTypeMappings |-> <<>>, lines |-> <<>>])
    IN  IF ~body.present \/ count = 0
        THEN [threw |-> FALSE,
              contentTypeCount |-> 0,
              contentTypeMappings |-> <<>>,
              defaultContentType |-> JS("null"),
              requestMapType |-> "{}",
              shouldGenerateRequestMap |-> FALSE,
              typeImports |-> {},
              callerImports |-> imports]
        ELSE [threw |-> done.threw,
              contentTypeCount |-> count,
              contentTypeMappings |-> done.contentTypeMappings,
              defaultContentType |->
                  JS(extracted.contentTypes[1].contentType),
              requestMapType |-> "{\n" \o JoinLines(done.lines) \o "\n}",
              shouldGenerateRequestMap |-> count > 1,
              typeImports |-> done.typeImports,
              callerImports |-> done.typeImports]

InitRequestMap ==
    /\ theRequestBody \in RequestBodies
    /\ requestMap = None
    /\ typeImports \in {{}, {"PetStrict"}}
    /\ resolutions = <<>>
    /\ RuntimeIdle
    /\ BindIdle
    /\ RenameIdle
    /\ GenerateIdle
    /\ AnalyzeIdle
    /\ VisitIdle

\* The server generator builds the request body map of the operation.
BuildRequestMap ==
    /\ requestMap = None
    /\ requestMap' = GenerateServerRequestBodyMap(theRequestBody, "list-pets",
                                                  typeImports)
    /\ typeImports' = requestMap'.callerImports
    /\ UNCHANGED <<theRequestBody, resolutions>>
    /\ UNCHANGED <<runtimeVars, bindVars, renameVars, generateVars, analyzeVars,
                   visitVars>>

NextRequestMap == BuildRequestMap

SpecRequestMap == InitRequestMap /\ [][NextRequestMap]_vars

----------------------------------------------------------------------------
(* Claims on the union generator and the parsing strategy *)

\* The statuses of the members of the response union
UnionStatuses ==
    {union.unionMembers[k].statusCode : k \in 1..Len(union.unionMembers)}

\* The statuses the response analysis reports
AnalysisStatuses ==
    {analysis.responses[k].statusCode : k \in 1..Len(analysis.responses)}
    \cup (IF analysis.hasDefault THEN {"default"} ELSE {})

\* C22 - generateResponseUnion includes all status codes: every key declared in
\* operation.responses, "default" included, has a member in unionMembers, one
\* per content type when the response has content and one void member
\* otherwise, and the statuses of the union are those the response analysis
\* reports for the operation.
UnionIncludesAllStatusCodes ==
    /\ (United /\ theOperation.hasResponses) =>
          \A i \in 1..Len(theOperation.responses) :
              LET r == theOperation.responses[i]
                  ms == SelectSeq(union.unionMembers,
                                  LAMBDA m : m.statusCode = r.code)
              IN  /\ ms # <<>>
                  /\ IF r.content = <<>>
                     THEN \A k \in 1..Len(ms) : ms[k].dataType = Undefined
                     ELSE /\ Len(ms) = Len(r.content)
                          /\ \A k \in 1..Len(ms) :
                                ms[k].contentType = JS(r.content[k].contentType)
    /\ (United /\ Analyzed /\ theOperation.hasResponses) =>
          UnionStatuses = AnalysisStatuses

\* The same statement on the operations that declare no "default" response
UnionIncludesNumericStatusCodes ==
    (\A i \in 1..Len(DeclaredCodes) : DeclaredCodes[i] # "default")
        => UnionIncludesAllStatusCodes

----------------------------------------------------------------------------
(* SpecStrategy: buildResponseTypeInfo on one response *)

\* Content types one response declares
MaxMedia == 2

StrategyContentTypes ==
    {"application/json", "application/problem+json", "application/x-ndjson",
     "text/plain"}

StrategySchemas == {NoSchema, RefTo("#/components/schemas/Pet"), InlineSchema}

RECURSIVE StrategyContents(_)
\* response.content with at most n media types, in every declaration order,
\* no content type twice
StrategyContents(n) ==
    IF n = 0
    THEN {<<>>}
    ELSE LET shorter == StrategyContents(n - 1)
         IN  shorter \cup
             { Append(l, Media(c, sch)) :
                 l \in {x \in shorter : Len(x) = n - 1},
                 c \in StrategyContentTypes, sch \in StrategySchemas }

StrategyInputs ==
    [statusCode : {"200", "default"},
     content : {x \in StrategyContents(MaxMedia) : DistinctContentTypes(x)},
     hasResponseContentTypeMap : BOOLEAN]

InitStrategy ==
    /\ strategyInput \in StrategyInputs
    /\ builtInfo = None
    /\ theOperation = None
    /\ analysis = None
    /\ union = None
    /\ RuntimeIdle
    /\ BindIdle
    /\ RenameIdle
    /\ GenerateIdle
    /\ ResolveIdle
    /\ VisitIdle

\* The client generator builds the ResponseInfo of the response.
BuildInfo ==
    /\ builtInfo = None
    /\ builtInfo' = BuildResponseTypeInfo(strategyInput.statusCode,
                           strategyInput.content, "list-pets", {},
                           strategyInput.hasResponseContentTypeMap)
    /\ UNCHANGED <<theOperation, analysis, union, strategyInput>>
    /\ UNCHANGED <<runtimeVars, bindVars, renameVars, generateVars, resolveVars,
                   visitVars>>

\* operation.responses holding the one response
StrategyOperation ==
    [operationId |-> "list-pets", hasResponses |-> TRUE,
     responses |-> <<[code |-> strategyInput.statusCode,
                      content |-> strategyInput.content]>>]

\* The shared union generator runs on the operation that declares the response.
UniteResponse(useStrictSchemas) ==
    /\ union = None
    /\ union' = GenerateResponseUnion(StrategyOperation, "list-pets", {},
                                      useStrictSchemas)
    /\ UNCHANGED <<theOperation, analysis, strategyInput, builtInfo>>
    /\ UNCHANGED <<runtimeVars, bindVars, renameVars, generateVars, resolveVars,
                   visitVars>>

NextStrategy ==
    \/ BuildInfo
    \/ \E useStrictSchemas \in BOOLEAN : UniteResponse(useStrictSchemas)

SpecStrategy == InitStrategy /\ [][NextStrategy]_vars

\* str.endsWith(suffix)
EndsWith(str, suffix) ==
    Len(str) >= Len(suffix)
        /\ SubSeq(str, Len(str) - Len(suffix) + 1, Len(str)) = suffix

\* The content type matches */json or *+json
MatchesJson(contentType) ==
    EndsWith(contentType, "/json") \/ EndsWith(contentType, "+json")

Built == builtInfo # None /\ ~builtInfo.threw

\* C23 - isJsonLike matching: parsingStrategy.isJsonLike is true exactly when
\* the content type of the response matches */json or *+json, and hasJsonLike
\* exactly when one of the declared content types does.
JsonLikeMatching ==
    Built =>
        /\ builtInfo.info.parsingStrategy.isJsonLike
              = (/\ Truthy(builtInfo.info.contentType)
                 /\ MatchesJson(builtInfo.info.contentType.js))
        /\ AnalyzeContentTypes(strategyInput.content).hasJsonLike
              = (\E i \in 1..Len(strategyInput.content) :
                    MatchesJson(strategyInput.content[i].contentType))

\* The same statement on the responses that do not declare application/x-ndjson
JsonLikeMatchingPlain ==
    (\A i \in 1..Len(strategyInput.content) :
        strategyInput.content[i].contentType # "application/x-ndjson")
        => JsonLikeMatching

InlinePositions ==
    {k \in 1..Len(strategyInput.content) :
        strategyInput.content[k].schema.kind = "inline"}

\* The identifier the union generator resolved for a content type
ResolvedFor(contentType) ==
    LET ms == SelectSeq(union.unionMembers,
                        LAMBDA m : m.contentType = JS(contentType))
    IN  ms[1].dataType

\* C25 - Identifier uniqueness for inline schemas: two distinct inline schemas
\* of one operation, differing in content type, never resolve to the same
\* identifier.
InlineIdentifiersUnique ==
    (United /\ strategyInput # None /\ strategyInput.statusCode # "default") =>
        \A k, l \in InlinePositions :
            k # l => ResolvedFor(strategyInput.content[k].contentType)
                         # ResolvedFor(strategyInput.content[l].contentType)

\* The schema node of a media type of the operation
SchemaNode(schema) ==
    IF schema.kind = "ref" THEN RefNode(<<LastSegment(schema.ref)>>)
    ELSE Obj(<<Prop("type", Str(<<"object">>))>>)

\* The response object node of a declared response
ResponseNode(content) ==
    IF content = <<>>
    THEN Obj(<<Prop("description", Str(<<"none">>))>>)
    ELSE Obj(<<Prop("content",
               Obj([k \in 1..Len(content) |->
                      Prop(content[k].contentType,
                           IF content[k].schema.kind = "none"
                           THEN Obj(<<Prop("example", Str(<<"x">>))>>)
                           ELSE Obj(<<Prop("schema",
                                           SchemaNode(content[k].schema))>>))]))>>)

\* The document that declares the operation, as the schema pass reads it
OperationDocument(op) ==
    Obj(<<Prop("paths",
            Obj(<<Prop("/pets",
              Obj(<<Prop("get",
                Obj(<<Prop("operationId", Str(<<op.operationId>>)),
                      Prop("responses",
                        Obj([i \in 1..Len(op.responses) |->
                               Prop(op.responses[i].code,
                                    ResponseNode(op.responses[i].content))]))>>))>>))>>))>>)

\* The names of the schema files extractResponseSchemas yields for the operation
GeneratedResponseSchemas ==
    LET names == ExtractResponseSchemas(OperationDocument(StrategyOperation))
    IN  {names[i] : i \in 1..Len(names)}

\* The content type the analysis reads the response as carries an inline schema
AnalysisInline ==
    /\ Built
    /\ builtInfo.info.hasSchema
    /\ SchemaOf(strategyInput.content, builtInfo.info.contentType.js).kind = "inline"

\* C28 - Import/schema consistency: every identifier the response analysis or
\* the union generator adds to the import set for an inline response schema
\* names a schema that extractResponseSchemas produces for the operation.
ImportsHaveSchemaFiles ==
    /\ AnalysisInline => builtInfo.info.typeName.js \in GeneratedResponseSchemas
    /\ (United /\ strategyInput # None) =>
          \A k \in InlinePositions :
              \A m \in {union.unionMembers[j] : j \in 1..Len(union.unionMembers)} :
                  m.contentType = JS(strategyInput.content[k].contentType) =>
                      \/ m.dataType.js \in GeneratedResponseSchemas
                      \/ \E n \in GeneratedResponseSchemas :
                            m.dataType.js = n \o "Strict"

\* The same statement on a 200 response whose first content type is
\* application/json with an inline schema, and which has no other inline schema
ImportsHaveSchemaFilesJsonFirst ==
    (/\ strategyInput # None
     /\ strategyInput.statusCode = "200"
     /\ strategyInput.content # <<>>
     /\ strategyInput.content[1] = Media("application/json", InlineSchema)
     /\ InlinePositions = {1})
        => ImportsHaveSchemaFiles

----------------------------------------------------------------------------
(* Claims on the output files of generate() *)

\* C27 - No write race: no two schema-generation tasks of one run of
\* generate() write to the same output file path.
NoWriteRace ==
    \A i, j \in 1..Len(tasks) :
        FileName(tasks[i]) = FileName(tasks[j]) => i = j

\* C21 - Determinism: whatever the scheduling of the tasks, when all schema
\* files are written every file holds the content of the same task, the one
\* handed last to the pool for that path, as in every other run on the
\* document.
Determinism ==
    AllWritten =>
        \A i, j \in 1..Len(tasks) :
            (i < j /\ FileName(tasks[i]) = FileName(tasks[j]))
                => ~tasks[i].overwrote

\* The other run: the file holds the content of the task handed last
LastTaskWroteLast ==
    /\ tasks # <<>>
    /\ AllWritten
    /\ \E i, j \in 1..Len(tasks) :
          /\ i < j
          /\ FileName(tasks[i]) = FileName(tasks[j])
          /\ tasks[j].overwrote

----------------------------------------------------------------------------
(* SpecVisit: visit(openApiDoc), one call at a time *)

\* visit() calls the model follows on one document
MaxVisits == 24

\* A schema body: plain, a property referring to a component schema, or an
\* array of two references
SchemaBodies ==
    { Obj(<<Prop("type", Str(<<"object">>))>>),
      Obj(<<Prop("properties", Obj(<<Prop("next", RefNode(<<"Set">>))>>))>>),
      Obj(<<Prop("properties", Obj(<<Prop("peer", RefNode(<<"Map">>))>>))>>),
      Obj(<<Prop("oneOf", Arr(<<RefNode(<<"Set">>), RefNode(<<"Map">>)>>))>>) }

\* Documents whose component schemas Set and Map may refer to themselves and
\* to each other, with a reference, a null or nothing under paths
VisitDocuments ==
    { Obj(<<Prop("paths", p),
            Prop("components",
                 Obj(<<Prop("schemas",
                           Obj(<<Prop("SetSchema", s), Prop("MapSchema", m)>>))>>))>>) :
        p \in {Nul, RefNode(<<"Set">>), Arr(<<Nul, RefNode(<<"Pet">>)>>)},
        s \in SchemaBodies, m \in SchemaBodies }

\* renameMap after the collision scan on { Set, Map }
VisitRenameMap ==
    (<<"Set">> :> FirstCandidate(<<"Set">>)) @@ (<<"Map">> :> FirstCandidate(<<"Map">>))

\* A visit that also descends into the schema a $ref names
ChildrenThroughRefs(node) ==
    CASE node.t = "object" ->
            [i \in 1..Len(node.fields) |-> node.fields[i].v]
            \o (IF /\ HasProp(node, "$ref")
                   /\ Get(node, "$ref").t = "string"
                   /\ StartsWith(Get(node, "$ref").text, refPrefix)
                THEN <<Get(Get(Get(visitDoc, "components"), "schemas"),
                           Text(Substring(Get(node, "$ref").text, Len(refPrefix)))
                               \o "Schema")>>
                ELSE <<>>)
      [] node.t = "array" -> node.items
      [] OTHER -> <<>>

\* Object.values(obj) of an object, the items of an array, nothing otherwise
ChildrenOf(node) ==
    CASE node.t = "object" -> [i \in 1..Len(node.fields) |-> node.fields[i].v]
      [] node.t = "array" -> node.items
      [] OTHER -> <<>>

\* Lines 644-650: the $ref string assigned to the node, if one is
RewrittenRef(node, map) ==
    IF /\ node.t = "object"
       /\ HasProp(node, "$ref")
       /\ Get(node, "$ref").t = "string"
       /\ StartsWith(Get(node, "$ref").text, refPrefix)
       /\ Has(map, Substring(Get(node, "$ref").text, Len(refPrefix)))
    THEN <<refPrefix \o map[Substring(Get(node, "$ref").text, Len(refPrefix))]>>
    ELSE <<>>

RECURSIVE NodeCount(_)
\* The nodes of a document: the values visit() can be called on
NodeCount(node) ==
    LET kids == CASE node.t = "object" ->
                        [i \in 1..Len(node.fields) |-> node.fields[i].v]
                  [] node.t = "array" -> node.items
                  [] OTHER -> <<>>
        RECURSIVE Sum(_)
        Sum(ks) == IF ks = <<>> THEN 0 ELSE NodeCount(Head(ks)) + Sum(Tail(ks))
    IN  1 + Sum(kids)

InitVisit ==
    /\ visitDoc \in VisitDocuments
    /\ visitStack = <<visitDoc>>
    /\ visitCount = 0
    /\ visitRewrites = <<>>
    /\ RuntimeIdle
    /\ BindIdle
    /\ RenameIdle
    /\ GenerateIdle
    /\ AnalyzeIdle
    /\ ResolveIdle

\* One call visit(node): a falsy node returns at once; an object has its $ref
\* rewritten; the call then visits the items or the property values in order,
\* each before the nodes that were pending.
VisitCall ==
    /\ visitStack # <<>>
    /\ visitCount < MaxVisits
    /\ visitCount' = visitCount + 1
    /\ visitRewrites' = visitRewrites \o RewrittenRef(Head(visitStack), VisitRenameMap)
    /\ visitStack' = ChildrenOf(Head(visitStack)) \o Tail(visitStack)
    /\ UNCHANGED visitDoc
    /\ UNCHANGED <<runtimeVars, bindVars, renameVars, generateVars, analyzeVars,
                   resolveVars>>

NextVisit == VisitCall

SpecVisit == InitVisit /\ [][NextVisit]_vars

\* visit() is synchronous: a call that can be made is made
SpecVisitLive == SpecVisit /\ WF_vars(VisitCall)

VisitReturned == visitDoc # None /\ visitStack = <<>>

\* C26 - Termination on cyclic schema graphs: on every document, with schemas
\* that refer to themselves or to each other, visit(openApiDoc) returns, and it
\* is called on no more values than the document has nodes.
VisitTerminates ==
    /\ [](visitDoc # None => visitCount <= NodeCount(visitDoc))
    /\ <>VisitReturned

\* The walk of a document whose schemas refer to each other has returned,
\* having rewritten both references
VisitTerminatesWitness ==
    /\ VisitReturned
    /\ Get(Get(Get(visitDoc, "components"), "schemas"), "SetSchema")
          = Obj(<<Prop("properties", Obj(<<Prop("peer", RefNode(<<"Map">>))>>))>>)
    /\ Get(Get(Get(visitDoc, "components"), "schemas"), "MapSchema")
          = Obj(<<Prop("properties", Obj(<<Prop("next", RefNode(<<"Set">>))>>))>>)
    /\ Len(visitRewrites) = 2
    /\ visitCount = NodeCount(visitDoc)


\* ---------------------------------------------------------------------------
\* A second application of the collision pass
\* ---------------------------------------------------------------------------

\* C30 - renameConflictingSchemas is idempotent: applied to a document an
\* earlier application returned, it renames nothing, returns 0 and leaves
\* every schema key, schema value and reference string of the document as it
\* found them.
RenameIdempotent ==
    (applications >= 2 /\ pc = "done") =>
        /\ returned = 0
        /\ renameMap = EmptyMap
        /\ schemas = inputSchemas
        /\ openApiDoc = inputDoc

\* A second application has returned on a document whose first application
\* renamed Set to SetSchema and rewrote a reference to it.
RenameIdempotentWitness ==
    /\ applications = 2
    /\ pc = "done"
    /\ schemas.present
    /\ HasKey(schemas.entries, <<"Set", "Schema">>)
    /\ ~HasKey(schemas.entries, <<"Set">>)
    /\ inputDoc = Visit(Document(RefNode(<<"Set">>), RefNode(<<"Pet">>),
                                 Discriminated(<<"Set">>)),
                        <<"Set">> :> <<"Set", "Schema">>)
    /\ inputDoc # Document(RefNode(<<"Set">>), RefNode(<<"Pet">>),
                           Discriminated(<<"Set">>))


\* ---------------------------------------------------------------------------
\* parse() and a config that changes after the response object was built
\* ---------------------------------------------------------------------------

\* C29 - The outcome of a manual-mode parse() depends only on what was fixed
\* when the response object was constructed: every parse() returns what a
\* parse with the deserializers configured at construction returns, whatever
\* was assigned to config.deserializers since.
ParseFixedAtConstruction ==
    (manual # None /\ "parse" \in DOMAIN manual) =>
        \A i \in 1..Len(outcomes) :
            outcomes[i] = ManualParse(manual.parse, constructedWith)

\* The same statement holds while the config is left alone.
ParseFixedWhileConfigKept ==
    (manual # None /\ "parse" \in DOMAIN manual /\ deserializers = constructedWith) =>
        ParseFixedAtConstruction

\* Two parse() calls on one response object with a reconfiguration between them.
ReconfiguredBetweenParses ==
    /\ manual # None
    /\ Len(outcomes) >= 2
    /\ deserializers # constructedWith
    /\ outcomes[1] # outcomes[2]

============================================================================
